---- MODULE Spec2Model ----
(***************************************************************************)
(* Model of the JWT decoder of tools.ryancruz.com                          *)
(* (src/src/tools/JWTDecoder.tsx): the component state, decodeToken,       *)
(* base64URLDecode and parseAndVerifyJwks.                                 *)
(*                                                                         *)
(* Text is a sequence of code points (naturals), a binary string a         *)
(* sequence of bytes 0..255.  A JavaScript value is a record              *)
(* [t, n, s, kids]: t is "null", "bool", "num", "str", "arr", "obj" or     *)
(* "undef"; n is the integer of a number and 1 or 0 for true or false; s   *)
(* is the text of a string; kids are the elements of an array or the       *)
(* members of an object in insertion order (keys unique), each a record    *)
(* [k, val] (k is empty for an array element).                             *)
(***************************************************************************)
EXTENDS Integers, Sequences, FiniteSets, TLC

(***************************************************************************)
(* Characters.                                                             *)
(***************************************************************************)
\* The printable ASCII characters, code points 32..126 in order (code 96,
\* the grave accent, is spelled out: no text of the model uses it).
Ascii ==
  << " ", "!", "\"", "#", "$", "%", "&", "'", "(", ")", "*", "+", ",", "-",
     ".", "/", "0", "1", "2", "3", "4", "5", "6", "7", "8", "9", ":", ";",
     "<", "=", ">", "?", "@", "A", "B", "C", "D", "E", "F", "G", "H", "I",
     "J", "K", "L", "M", "N", "O", "P", "Q", "R", "S", "T", "U", "V", "W",
     "X", "Y", "Z", "[", "\\", "]", "^", "_", "grave", "a", "b", "c", "d", "e",
     "f", "g", "h", "i", "j", "k", "l", "m", "n", "o", "p", "q", "r", "s",
     "t", "u", "v", "w", "x", "y", "z", "{", "|", "}", "~" >>

\* Code point of a printable ASCII character.
Code(c) == 31 + (CHOOSE i \in 1..Len(Ascii) : Ascii[i] = c)

\* The text spelled by a sequence of one-character strings.
S(cs) == [i \in 1..Len(cs) |-> Code(cs[i])]

\* The code points of the characters the program and the grammars of base64
\* and JSON name:  . " \ / { } [ ] , : - + _ b f n r t u =
Ch ==
  [ dot |-> 46,
    quote |-> 34,
    backslash |-> 92,
    slash |-> 47,
    lbrace |-> 123,
    rbrace |-> 125,
    lbracket |-> 91,
    rbracket |-> 93,
    comma |-> 44,
    colon |-> 58,
    minus |-> 45,
    plus |-> 43,
    underscore |-> 95,
    b |-> 98,
    f |-> 102,
    n |-> 110,
    r |-> 114,
    t |-> 116,
    u |-> 117,
    equals |-> 61 ]

\* The member names the program and the library read, as code points:
\* alg, kid, kty, crv, use, keys, key_ops, exp, nbf, iat.
Name ==
  [ alg |-> << 97, 108, 103 >>,
    kid |-> << 107, 105, 100 >>,
    kty |-> << 107, 116, 121 >>,
    crv |-> << 99, 114, 118 >>,
    use |-> << 117, 115, 101 >>,
    keys |-> << 107, 101, 121, 115 >>,
    key_ops |-> << 107, 101, 121, 95, 111, 112, 115 >>,
    exp |-> << 101, 120, 112 >>,
    nbf |-> << 110, 98, 102 >>,
    iat |-> << 105, 97, 116 >> ]

\* The algorithm names, key types and key uses the program and the library name.
RS256 == S(<< "R", "S", "2", "5", "6" >>)
RS384 == S(<< "R", "S", "3", "8", "4" >>)
RS512 == S(<< "R", "S", "5", "1", "2" >>)
ES256 == S(<< "E", "S", "2", "5", "6" >>)
ES384 == S(<< "E", "S", "3", "8", "4" >>)
ES512 == S(<< "E", "S", "5", "1", "2" >>)
HS256 == S(<< "H", "S", "2", "5", "6" >>)
NONE == S(<< "n", "o", "n", "e" >>)
RSA == S(<< "R", "S", "A" >>)
EC == S(<< "E", "C" >>)
OKP == S(<< "O", "K", "P" >>)
UseSig == S(<< "s", "i", "g" >>)
OpVerify == S(<< "v", "e", "r", "i", "f", "y" >>)

\* The base64 alphabet, value 0 first.
B64Alphabet ==
  S(<< "A", "B", "C", "D", "E", "F", "G", "H", "I", "J", "K", "L", "M", "N",
       "O", "P", "Q", "R", "S", "T", "U", "V", "W", "X", "Y", "Z", "a", "b",
       "c", "d", "e", "f", "g", "h", "i", "j", "k", "l", "m", "n", "o", "p",
       "q", "r", "s", "t", "u", "v", "w", "x", "y", "z", "0", "1", "2", "3",
       "4", "5", "6", "7", "8", "9", "+", "/" >>)

\* The value of a base64 character: A-Z, a-z, 0-9, + and / in this order.
B64Value(c) ==
  IF c >= 65 /\ c <= 90 THEN c - 65
  ELSE IF c >= 97 /\ c <= 122 THEN c - 71
  ELSE IF c >= 48 /\ c <= 57 THEN c + 4
  ELSE IF c = Ch.plus THEN 62
  ELSE IF c = Ch.slash THEN 63
  ELSE -1

IsB64Char(c) == B64Value(c) >= 0

\* ASCII whitespace as the forgiving-base64 decoder strips it
\* (tab, LF, FF, CR, space).
IsSpace(c) == c \in {9, 10, 12, 13, 32}

\* The text without its ASCII whitespace.
RECURSIVE StripSpace(_)
StripSpace(s) ==
  IF s = << >> THEN << >>
  ELSE (IF IsSpace(Head(s)) THEN << >> ELSE << Head(s) >>) \o StripSpace(Tail(s))

\* The white space and line terminators String.prototype.trim removes.
IsTrimSpace(c) ==
  c \in {9, 10, 11, 12, 13, 32, 160, 5760, 8232, 8233, 8239, 8287, 12288, 65279}
        \cup (8192..8202)

\* !str.trim(): the text is empty or all white space.
IsBlank(s) == \A i \in 1..Len(s) : IsTrimSpace(s[i])

\* str.replace(/-/g, '+').replace(/_/g, '/')
UrlToStd(s) ==
  [i \in 1..Len(s) |->
     IF s[i] = Ch.minus THEN Ch.plus
     ELSE IF s[i] = Ch.underscore THEN Ch.slash ELSE s[i]]

\* '='.repeat(n)
Repeat(c, n) == [i \in 1..n |-> c]

\* A fault: the padding is appended without the test of pad.
Pad_Unconditional(base64) == base64 \o Repeat(Ch.equals, 4 - (Len(base64) % 4))

\* pad ? base64 + '='.repeat(4 - pad) : base64
Pad(base64) ==
  LET pad == Len(base64) % 4
  IN  IF pad # 0 THEN base64 \o Repeat(Ch.equals, 4 - pad) ELSE base64

(***************************************************************************)
(* atob: the forgiving-base64 decode.  Fail marks a thrown exception.      *)
(***************************************************************************)
Fail == [ok |-> FALSE]
Ok(v) == [ok |-> TRUE, v |-> v]

\* The bytes of a run of base64 characters: 4 characters give 3 bytes, a
\* trailing 3 give 2 and a trailing 2 give 1 (the spare bits are dropped).
RECURSIVE B64Bytes(_)
B64Bytes(s) ==
  IF Len(s) < 2 THEN << >>
  ELSE LET a == B64Value(s[1])
           b == B64Value(s[2])
           b1 == a * 4 + (b \div 16)
       IN  IF Len(s) = 2 THEN << b1 >>
           ELSE LET c == B64Value(s[3])
                    b2 == (b % 16) * 16 + (c \div 4)
                IN  IF Len(s) = 3 THEN << b1, b2 >>
                    ELSE LET d == B64Value(s[4])
                             b3 == (c % 4) * 64 + d
                         IN  << b1, b2, b3 >> \o B64Bytes(SubSeq(s, 5, Len(s)))

StripPadding(s) ==
  IF Len(s) % 4 = 0 /\ Len(s) > 0 /\ s[Len(s)] = Ch.equals
  THEN IF s[Len(s) - 1] = Ch.equals THEN SubSeq(s, 1, Len(s) - 2)
       ELSE SubSeq(s, 1, Len(s) - 1)
  ELSE s

Atob(str) ==
  LET data == StripPadding(StripSpace(str))
  IN  IF Len(data) % 4 = 1 \/ \E i \in 1..Len(data) : ~IsB64Char(data[i])
      THEN Fail
      ELSE Ok(B64Bytes(data))

(***************************************************************************)
(* decodeURIComponent(escape(bytes)): strict UTF-8 decoding.               *)
(***************************************************************************)
IsCont(b) == b >= 128 /\ b <= 191

RECURSIVE Utf8Decode(_)
Utf8Decode(bs) ==
  IF bs = << >> THEN Ok(<< >>)
  ELSE LET b == bs[1]
           n == IF b < 128 THEN 1
                ELSE IF b >= 194 /\ b <= 223 THEN 2
                ELSE IF b >= 224 /\ b <= 239 THEN 3
                ELSE IF b >= 240 /\ b <= 244 THEN 4
                ELSE 0
       IN  IF n = 0 \/ Len(bs) < n \/ \E i \in 2..n : ~IsCont(bs[i])
           THEN Fail
           ELSE LET cp == IF n = 1 THEN b
                          ELSE IF n = 2 THEN (b - 192) * 64 + (bs[2] - 128)
                          ELSE IF n = 3
                          THEN (b - 224) * 4096 + (bs[2] - 128) * 64 + (bs[3] - 128)
                          ELSE (b - 240) * 262144 + (bs[2] - 128) * 4096
                               + (bs[3] - 128) * 64 + (bs[4] - 128)
                    bad == \/ n = 3 /\ (cp < 2048 \/ (cp >= 55296 /\ cp <= 57343))
                           \/ n = 4 /\ (cp < 65536 \/ cp > 1114111)
                    rest == Utf8Decode(SubSeq(bs, n + 1, Len(bs)))
                IN  IF bad \/ ~rest.ok THEN Fail
                    ELSE Ok(<< cp >> \o rest.v)

\* A fault: the binary string of atob is returned as it is, without the
\* decodeURIComponent(escape(...)) that reads it as UTF-8.
base64URLDecode_Binary(str) ==
  LET bin == Atob(Pad(UrlToStd(str)))
  IN  IF ~bin.ok THEN Fail ELSE Ok(bin.v)

\* base64URLDecode(str): the decoded text, or Fail for
\* throw new Error('Invalid base64 string').
base64URLDecode(str) ==
  LET padded == Pad(UrlToStd(str))
      bin == Atob(padded)
  IN  IF ~bin.ok THEN Fail ELSE Utf8Decode(bin.v)

(***************************************************************************)
(* JavaScript values and JSON.parse.  The number grammar is the integers:  *)
(* no text of the model writes a fraction or an exponent.                  *)
(***************************************************************************)
Value(t, n, s, kids) == [t |-> t, n |-> n, s |-> s, kids |-> kids]
Null == Value("null", 0, << >>, << >>)
Undefined == Value("undef", 0, << >>, << >>)
Bool(b) == Value("bool", IF b THEN 1 ELSE 0, << >>, << >>)
Num(n) == Value("num", n, << >>, << >>)
Str(s) == Value("str", 0, s, << >>)
\* An array of the elements a.
Arr(a) == Value("arr", 0, << >>, [i \in 1..Len(a) |-> [k |-> << >>, val |-> a[i]]])
\* An object of the members o, each << key, value >>.
Obj(o) == Value("obj", 0, << >>, [i \in 1..Len(o) |-> [k |-> o[i][1], val |-> o[i][2]]])

HasKey(kids, k) == \E i \in 1..Len(kids) : kids[i].k = k

\* obj[k] = v on an object under construction: a repeated key keeps its
\* place and takes the later value.
PutMember(kids, k, v) ==
  IF HasKey(kids, k)
  THEN [i \in 1..Len(kids) |-> IF kids[i].k = k THEN [k |-> k, val |-> v] ELSE kids[i]]
  ELSE Append(kids, [k |-> k, val |-> v])

\* value.k: a property read.  Reading a property of null or undefined
\* throws a TypeError (ok = FALSE); a primitive or an array has none of the
\* properties the program reads, except Array.prototype.keys (a function,
\* which is truthy and is no array: modelled as an empty object).
GetProp(value, k) ==
  IF value.t \in {"null", "undef"} THEN Fail
  ELSE IF value.t = "obj"
  THEN IF HasKey(value.kids, k)
       THEN Ok(value.kids[CHOOSE i \in 1..Len(value.kids) : value.kids[i].k = k].val)
       ELSE Ok(Undefined)
  ELSE IF value.t = "arr" /\ k = Name.keys THEN Ok(Obj(<< >>))
  ELSE Ok(Undefined)

\* JavaScript truthiness (the operand of if (...), ! and ||).
Truthy(value) ==
  CASE value.t \in {"null", "undef"} -> FALSE
    [] value.t = "bool" -> value.n = 1
    [] value.t = "num" -> value.n # 0
    [] value.t = "str" -> value.s # << >>
    [] OTHER -> TRUE

IsJsonSpace(c) == c \in {9, 10, 13, 32}
IsDigit(c) == c >= 48 /\ c <= 57

RECURSIVE SkipWs(_, _)
SkipWs(txt, i) ==
  IF i <= Len(txt) /\ IsJsonSpace(txt[i]) THEN SkipWs(txt, i + 1) ELSE i

Parsed(v, next) == [ok |-> TRUE, v |-> v, next |-> next]

HexValue(c) ==
  IF IsDigit(c) THEN c - 48
  ELSE IF c >= 65 /\ c <= 70 THEN c - 55
  ELSE IF c >= 97 /\ c <= 102 THEN c - 87
  ELSE -1

\* The characters of a string literal from position i (after the opening
\* quote) up to its closing quote; acc is the text read so far.
RECURSIVE ParseChars(_, _, _)
ParseChars(txt, i, acc) ==
  IF i > Len(txt) \/ txt[i] < 32 THEN Fail
  ELSE IF txt[i] = Ch.quote THEN Parsed(acc, i + 1)
  ELSE IF txt[i] # Ch.backslash THEN ParseChars(txt, i + 1, Append(acc, txt[i]))
  ELSE IF i + 1 > Len(txt) THEN Fail
  ELSE LET e == txt[i + 1]
       IN  IF e \in {Ch.quote, Ch.backslash, Ch.slash}
           THEN ParseChars(txt, i + 2, Append(acc, e))
           ELSE IF e = Ch.b THEN ParseChars(txt, i + 2, Append(acc, 8))
           ELSE IF e = Ch.f THEN ParseChars(txt, i + 2, Append(acc, 12))
           ELSE IF e = Ch.n THEN ParseChars(txt, i + 2, Append(acc, 10))
           ELSE IF e = Ch.r THEN ParseChars(txt, i + 2, Append(acc, 13))
           ELSE IF e = Ch.t THEN ParseChars(txt, i + 2, Append(acc, 9))
           ELSE IF e = Ch.u /\ i + 5 <= Len(txt)
                   /\ \A j \in 2..5 : HexValue(txt[i + j]) >= 0
           THEN ParseChars(txt, i + 6,
                  Append(acc, HexValue(txt[i + 2]) * 4096 + HexValue(txt[i + 3]) * 256
                              + HexValue(txt[i + 4]) * 16 + HexValue(txt[i + 5])))
           ELSE Fail

\* The digits from position i; acc is their value so far.
RECURSIVE ParseDigits(_, _, _)
ParseDigits(txt, i, acc) ==
  IF i <= Len(txt) /\ IsDigit(txt[i])
  THEN ParseDigits(txt, i + 1, acc * 10 + (txt[i] - 48))
  ELSE Parsed(acc, i)

\* -? (0 | [1-9][0-9]*)
ParseNumber(txt, i) ==
  LET neg == txt[i] = Ch.minus
      j == IF neg THEN i + 1 ELSE i
  IN  IF j > Len(txt) \/ ~IsDigit(txt[j]) THEN Fail
      ELSE IF txt[j] = 48 THEN Parsed(Num(0), j + 1)
      ELSE LET d == ParseDigits(txt, j, 0)
           IN  Parsed(Num(IF neg THEN 0 - d.v ELSE d.v), d.next)

StartsWith(txt, i, word) ==
  /\ i + Len(word) - 1 <= Len(txt)
  /\ SubSeq(txt, i, i + Len(word) - 1) = word

RECURSIVE ParseValue(_, _)
RECURSIVE ParseElements(_, _, _)
RECURSIVE ParseMembers(_, _, _)

\* The value that starts at position i (whitespace before it skipped).
ParseValue(txt, i0) ==
  LET i == SkipWs(txt, i0)
  IN  IF i > Len(txt) THEN Fail
      ELSE IF txt[i] = Ch.lbrace
      THEN LET j == SkipWs(txt, i + 1)
           IN  IF j <= Len(txt) /\ txt[j] = Ch.rbrace THEN Parsed(Obj(<< >>), j + 1)
               ELSE ParseMembers(txt, j, << >>)
      ELSE IF txt[i] = Ch.lbracket
      THEN LET j == SkipWs(txt, i + 1)
           IN  IF j <= Len(txt) /\ txt[j] = Ch.rbracket THEN Parsed(Arr(<< >>), j + 1)
               ELSE ParseElements(txt, j, << >>)
      ELSE IF txt[i] = Ch.quote
      THEN LET r == ParseChars(txt, i + 1, << >>)
           IN  IF r.ok THEN Parsed(Str(r.v), r.next) ELSE Fail
      ELSE IF txt[i] = Ch.minus \/ IsDigit(txt[i]) THEN ParseNumber(txt, i)
      ELSE IF StartsWith(txt, i, S(<< "t", "r", "u", "e" >>)) THEN Parsed(Bool(TRUE), i + 4)
      ELSE IF StartsWith(txt, i, S(<< "f", "a", "l", "s", "e" >>)) THEN Parsed(Bool(FALSE), i + 5)
      ELSE IF StartsWith(txt, i, S(<< "n", "u", "l", "l" >>)) THEN Parsed(Null, i + 4)
      ELSE Fail

\* value (, value)* ] from position i; acc holds the elements read.
ParseElements(txt, i, acc) ==
  LET r == ParseValue(txt, i)
  IN  IF ~r.ok THEN Fail
      ELSE LET j == SkipWs(txt, r.next)
               a == Append(acc, r.v)
           IN  IF j > Len(txt) THEN Fail
               ELSE IF txt[j] = Ch.rbracket THEN Parsed(Arr(a), j + 1)
               ELSE IF txt[j] = Ch.comma THEN ParseElements(txt, j + 1, a)
               ELSE Fail

\* "key" : value (, "key" : value)* } from position i (whitespace skipped);
\* acc holds the members read.
ParseMembers(txt, i0, acc) ==
  LET i == SkipWs(txt, i0)
  IN  IF i > Len(txt) \/ txt[i] # Ch.quote THEN Fail
      ELSE LET k == ParseChars(txt, i + 1, << >>)
           IN  IF ~k.ok THEN Fail
               ELSE LET c == SkipWs(txt, k.next)
                    IN  IF c > Len(txt) \/ txt[c] # Ch.colon THEN Fail
                        ELSE LET r == ParseValue(txt, c + 1)
                             IN  IF ~r.ok THEN Fail
                                 ELSE LET j == SkipWs(txt, r.next)
                                          o == PutMember(acc, k.v, r.v)
                                      IN  IF j > Len(txt) THEN Fail
                                          ELSE IF txt[j] = Ch.rbrace
                                          THEN Parsed(Value("obj", 0, << >>, o), j + 1)
                                          ELSE IF txt[j] = Ch.comma
                                          THEN ParseMembers(txt, j + 1, o)
                                          ELSE Fail

\* JSON.parse(txt): the value, or Fail for a SyntaxError.
JsonParse(txt) ==
  LET r == ParseValue(txt, 1)
  IN  IF ~r.ok THEN Fail
      ELSE IF SkipWs(txt, r.next) <= Len(txt) THEN Fail
      ELSE Ok(r.v)

(***************************************************************************)
(* The encoder side, used to build the tokens and key sets the model is    *)
(* run on: JSON.stringify, UTF-8 encoding and unpadded base64url.          *)
(***************************************************************************)
RECURSIVE Digits(_)
Digits(n) ==
  IF n < 10 THEN << 48 + n >> ELSE Append(Digits(n \div 10), 48 + (n % 10))

RECURSIVE Quote(_)
Quote(s) ==
  IF s = << >> THEN << >>
  ELSE (IF Head(s) \in {Ch.quote, Ch.backslash} THEN << Ch.backslash, Head(s) >>
        ELSE << Head(s) >>) \o Quote(Tail(s))

RECURSIVE Stringify(_)
RECURSIVE StringifyItems(_, _)
Stringify(value) ==
  CASE value.t = "null" -> S(<< "n", "u", "l", "l" >>)
    [] value.t = "bool" -> IF value.n = 1 THEN S(<< "t", "r", "u", "e" >>)
                           ELSE S(<< "f", "a", "l", "s", "e" >>)
    [] value.t = "num" -> IF value.n < 0 THEN << Ch.minus >> \o Digits(0 - value.n)
                          ELSE Digits(value.n)
    [] value.t = "str" -> << Ch.quote >> \o Quote(value.s) \o << Ch.quote >>
    [] value.t = "arr" -> << Ch.lbracket >> \o StringifyItems(value.kids, FALSE) \o << Ch.rbracket >>
    [] value.t = "obj" -> << Ch.lbrace >> \o StringifyItems(value.kids, TRUE) \o << Ch.rbrace >>

StringifyItems(items, members) ==
  IF items = << >> THEN << >>
  ELSE LET first == IF members
                    THEN Stringify(Str(items[1].k)) \o << Ch.colon >> \o Stringify(items[1].val)
                    ELSE Stringify(items[1].val)
       IN  first \o (IF Len(items) > 1 THEN << Ch.comma >> ELSE << >>)
                 \o StringifyItems(Tail(items), members)

RECURSIVE Utf8Encode(_)
Utf8Encode(txt) ==
  IF txt = << >> THEN << >>
  ELSE LET c == Head(txt)
       IN  (IF c < 128 THEN << c >>
            ELSE IF c < 2048 THEN << 192 + (c \div 64), 128 + (c % 64) >>
            ELSE IF c < 65536
            THEN << 224 + (c \div 4096), 128 + ((c \div 64) % 64), 128 + (c % 64) >>
            ELSE << 240 + (c \div 262144), 128 + ((c \div 4096) % 64),
                    128 + ((c \div 64) % 64), 128 + (c % 64) >>)
           \o Utf8Encode(Tail(txt))

UrlChar(v) ==
  IF v = 62 THEN Ch.minus ELSE IF v = 63 THEN Ch.underscore ELSE B64Alphabet[v + 1]

RECURSIVE Base64UrlEncode(_)
Base64UrlEncode(bs) ==
  IF bs = << >> THEN << >>
  ELSE IF Len(bs) = 1
  THEN << UrlChar(bs[1] \div 4), UrlChar((bs[1] % 4) * 16) >>
  ELSE IF Len(bs) = 2
  THEN << UrlChar(bs[1] \div 4), UrlChar((bs[1] % 4) * 16 + (bs[2] \div 16)),
          UrlChar((bs[2] % 16) * 4) >>
  ELSE << UrlChar(bs[1] \div 4), UrlChar((bs[1] % 4) * 16 + (bs[2] \div 16)),
          UrlChar((bs[2] % 16) * 4 + (bs[3] \div 64)), UrlChar(bs[3] % 64) >>
       \o Base64UrlEncode(SubSeq(bs, 4, Len(bs)))

\* base64url(text)
EncodeSegment(txt) == Base64UrlEncode(Utf8Encode(txt))

(***************************************************************************)
(* decodeToken, up to the verification step.                               *)
(***************************************************************************)
\* token.split('.'): acc is the segment being read.
RECURSIVE SplitFrom(_, _)
SplitFrom(s, acc) ==
  IF s = << >> THEN << acc >>
  ELSE IF Head(s) = Ch.dot THEN << acc >> \o SplitFrom(Tail(s), << >>)
  ELSE SplitFrom(Tail(s), Append(acc, Head(s)))

Split(s) == SplitFrom(s, << >>)

\* The values of the error state.  The message of a SyntaxError and of a
\* TypeError is the engine's; each stands for itself.
NoError == ""
EnterToken == "Please enter a JWT token"
InvalidFormat == "Invalid JWT format"
InvalidBase64 == "Invalid base64 string"
JsonSyntaxError == "SyntaxError: JSON.parse"
PropertyOfNull == "TypeError: Cannot read properties of null"
ExpiredWarning == "Warning: This token has expired"
\* 'Invalid JWKS format: ' + err.message, of a rejected parseAndVerifyJwks.
InvalidJwksFormat == "Invalid JWKS format: "

MsPerSecond == 1000

\* The digits of a numeric string, as Number() reads it (the empty string
\* is 0); Fail is NaN.
StringToNumber(s) ==
  IF s = << >> THEN Ok(0)
  ELSE IF \A i \in 1..Len(s) : IsDigit(s[i]) THEN Ok(ParseDigits(s, 1, 0).v)
  ELSE Fail

\* value * 1000 coerces its operand to a number; Fail is NaN.
RECURSIVE ToNumber(_)
ToNumber(value) ==
  CASE value.t = "num" -> Ok(value.n)
    [] value.t = "bool" -> Ok(value.n)
    [] value.t = "null" -> Ok(0)
    [] value.t = "str" -> StringToNumber(value.s)
    [] value.t = "arr" -> IF value.kids = << >> THEN Ok(0)
                          ELSE IF Len(value.kids) = 1
                                  /\ value.kids[1].val.t \in {"num", "str", "arr", "null"}
                          THEN ToNumber(value.kids[1].val)
                          ELSE Fail
    [] OTHER -> Fail

\* A fault: the comparison of the two dates is the other way round.
IsExpired_Reversed(exp, now) ==
  /\ Truthy(exp)
  /\ ToNumber(exp).ok
  /\ ToNumber(exp).v * MsPerSecond > now

\* if (payload.exp) { new Date(payload.exp * 1000) < new Date() }
IsExpired(exp, now) ==
  /\ Truthy(exp)
  /\ ToNumber(exp).ok
  /\ ToNumber(exp).v * MsPerSecond < now

\* The three ways the expiry check of decodeToken ends: the test of
\* payload.exp fails and nothing is compared, or the expiry is compared with
\* the time and is before it or not.
ExpiryStatus(exp, now) ==
  IF ~Truthy(exp) THEN "NoExpiry"
  ELSE IF IsExpired(exp, now) THEN "Expired"
  ELSE "Valid"

\* What one decodeToken call has set when it reaches the verification step
\* (reached = TRUE) or returns before it: the stored header and payload,
\* and the error message.
Decoded(header, payload, error, reached) ==
  [header |-> header, payload |-> payload, error |-> error, reached |-> reached]

DecodeFailure(error) == Decoded(Null, Null, error, FALSE)

\* A fault: every failure of a segment is reported as a base64 failure.
ParsedPart_OneMessage(text) ==
  IF ~text.ok \/ ~JsonParse(text.v).ok THEN [ok |-> FALSE, error |-> InvalidBase64]
  ELSE [ok |-> TRUE, v |-> JsonParse(text.v).v]

\* JSON.parse(base64URLDecode(segment)): the value, or the message of the
\* error thrown.
ParsedPart(text) ==
  IF ~text.ok THEN [ok |-> FALSE, error |-> InvalidBase64]
  ELSE IF ~JsonParse(text.v).ok THEN [ok |-> FALSE, error |-> JsonSyntaxError]
  ELSE [ok |-> TRUE, v |-> JsonParse(text.v).v]

DecodePart(segment) == ParsedPart(base64URLDecode(segment))

\* decodeToken from setDecodedHeader(header) on: the expiry check.  exp is
\* the read of payload.exp.
checkExpiration(header, payload, exp, now) ==
  IF ~exp.ok THEN Decoded(header, payload, PropertyOfNull, FALSE)
  ELSE Decoded(header, payload,
               IF ExpiryStatus(exp.v, now) = "Expired" THEN ExpiredWarning ELSE NoError,
               TRUE)

\* A fault: the number of segments is checked in place of their content.
decodeParts_LengthOnly(parts, now) ==
  LET header == DecodePart(parts[1])
      payload == DecodePart(parts[2])
  IN  IF Len(parts) < 2 THEN DecodeFailure(InvalidFormat)
      ELSE IF ~header.ok THEN DecodeFailure(header.error)
      ELSE IF ~payload.ok THEN DecodeFailure(payload.error)
      ELSE checkExpiration(header.v, payload.v, GetProp(payload.v, Name.exp), now)

\* decodeToken from const [headerB64, payloadB64, signature] = parts on.
\* The header is decoded and parsed before the payload is looked at.
decodeParts(parts, now) ==
  LET header == DecodePart(parts[1])
      payload == DecodePart(parts[2])
  IN  IF parts[1] = << >> \/ Len(parts) < 2 \/ parts[2] = << >>
      THEN DecodeFailure(InvalidFormat)
      ELSE IF ~header.ok THEN DecodeFailure(header.error)
      ELSE IF ~payload.ok THEN DecodeFailure(payload.error)
      ELSE checkExpiration(header.v, payload.v, GetProp(payload.v, Name.exp), now)

decodeToken(tok, now) ==
  IF IsBlank(tok) THEN DecodeFailure(EnterToken) ELSE decodeParts(Split(tok), now)

(***************************************************************************)
(* parseAndVerifyJwks.  createLocalJWKSet and jwtVerify are the jose       *)
(* library's; they are modelled step by step in the order the library      *)
(* takes them, each failure with the message of the error it throws.  The  *)
(* signature scheme is idealised: a key's material names its key pair, and *)
(* the signature of an input under a key is a deterministic function of    *)
(* the material, the algorithm and the input that no other triple yields.  *)
(***************************************************************************)
\* A fault: the symmetric HS256 is admitted.
AllowedAlgorithms_WithHmac == {RS256, RS384, RS512, ES256, ES384, ES512, HS256}

\* A fault: the ECDSA algorithms are left out.
AllowedAlgorithms_RsaOnly == {RS256, RS384, RS512}

\* algorithms: ['RS256', 'RS384', 'RS512', 'ES256', 'ES384', 'ES512']
AllowedAlgorithms == {RS256, RS384, RS512, ES256, ES384, ES512}

\* The reasons a verification fails with: err.message, of the error the
\* program throws and of the errors the library throws.
MissingKeysArray == "Invalid JWKS format - missing keys array"

JoseError ==
  [ jwksMalformed |-> "JSON Web Key Set malformed",
    invalidCompactJws |-> "Invalid Compact JWS",
    headerInvalid |-> "JWS Protected Header is invalid",
    algMissing |-> "JWS Protected Header Parameter \"alg\" missing or invalid",
    algNotAllowed |-> "\"alg\" (Algorithm) Header Parameter value not allowed",
    algUnsupportedForJwks |-> "Unsupported \"alg\" value for a JSON Web Key Set",
    noApplicableKey |-> "no applicable key found in the JSON Web Key Set",
    multipleMatchingKeys |-> "multiple matching keys found in the JSON Web Key Set",
    invalidKeyData |-> "Invalid key data",
    signatureNotBase64 |-> "Failed to base64url decode the signature",
    signatureMismatch |-> "signature verification failed",
    claimsNotObject |-> "JWT Claims Set must be a top-level JSON object",
    iatNotNumber |-> "\"iat\" claim must be a number",
    nbfNotNumber |-> "\"nbf\" claim must be a number",
    nbfInFuture |-> "\"nbf\" claim timestamp check failed",
    expNotNumber |-> "\"exp\" claim must be a number",
    expInPast |-> "\"exp\" claim timestamp check failed" ]

\* The steps of one verification, in the order they are taken.
Step ==
  [ parse |-> "JSON.parse",
    validate |-> "keys array",
    create |-> "createLocalJWKSet",
    header |-> "protected header",
    algorithms |-> "algorithms",
    getKey |-> "key selection",
    import |-> "key import",
    signature |-> "signature",
    claims |-> "claims" ]

\* String(value), as a template literal renders it.
RECURSIVE ToText(_)
RECURSIVE JoinText(_)
ToText(value) ==
  CASE value.t = "str" -> value.s
    [] value.t = "num" -> Stringify(value)
    [] value.t = "bool" -> Stringify(value)
    [] value.t = "null" -> S(<< "n", "u", "l", "l" >>)
    [] value.t = "undef" -> S(<< "u", "n", "d", "e", "f", "i", "n", "e", "d" >>)
    [] value.t = "arr" -> JoinText(value.kids)
    [] OTHER -> S(<< "[", "o", "b", "j", "e", "c", "t", " ", "O", "b", "j", "e", "c", "t", "]" >>)

JoinText(items) ==
  IF items = << >> THEN << >>
  ELSE (IF items[1].val.t \in {"null", "undef"} THEN << >> ELSE ToText(items[1].val))
       \o (IF Len(items) > 1 THEN << Ch.comma >> ELSE << >>)
       \o JoinText(Tail(items))

\* A fault: the kid is rendered without the || 'none'.
VerifiedStatus_NoSentinel(alg, kid) ==
  [verified |-> TRUE,
   message |-> [text |-> "Signature verified successfully",
                algorithm |-> ToText(alg),
                keyId |-> ToText(kid)]]

\* { verified: true, message: `Signature verified successfully (algorithm:
\* ${protectedHeader.alg}, key ID: ${protectedHeader.kid || 'none'})` }
VerifiedStatus(alg, kid) ==
  [verified |-> TRUE,
   message |-> [text |-> "Signature verified successfully",
                algorithm |-> ToText(alg),
                keyId |-> IF Truthy(kid) THEN ToText(kid) ELSE NONE]]

\* { verified: false, message: `Signature verification failed: ${err.message}` }
FailedStatus(reason) ==
  [verified |-> FALSE,
   message |-> [text |-> "Signature verification failed", reason |-> reason]]

\* The library's base64url decode (no padding is added; atob takes the
\* unpadded text) followed by JSON.parse.
JoseDecodeJson(segment) ==
  LET bin == Atob(UrlToStd(segment))
  IN  IF ~bin.ok THEN Fail
      ELSE LET txt == Utf8Decode(bin.v)
           IN  IF ~txt.ok THEN Fail ELSE JsonParse(txt.v)

\* header.name of a parsed header or key (undefined when the value is no
\* object or has no such member).
Member(value, name) ==
  IF value.t = "obj" THEN GetProp(value, name).v ELSE Undefined

\* The key type an algorithm verifies with: alg.slice(0, 2).
KtyFromAlg(alg) ==
  LET family == SubSeq(alg, 1, IF Len(alg) < 2 THEN Len(alg) ELSE 2)
  IN  IF family \in {S(<< "R", "S" >>), S(<< "P", "S" >>)} THEN Ok(RSA)
      ELSE IF family = S(<< "E", "S" >>) THEN Ok(EC)
      ELSE IF family = S(<< "E", "d" >>) THEN Ok(OKP)
      ELSE Fail

\* The curve an ECDSA algorithm requires of its key.
CurveOfAlg(alg) ==
  IF alg = ES256 THEN S(<< "P", "-", "2", "5", "6" >>)
  ELSE IF alg = ES384 THEN S(<< "P", "-", "3", "8", "4" >>)
  ELSE IF alg = ES512 THEN S(<< "P", "-", "5", "2", "1" >>)
  ELSE << >>

\* A key of the set is compatible with the algorithm: its key type is the
\* algorithm family's, and its alg, use, key_ops and crv, where it states
\* them, admit verifying with the algorithm.
Compatible(jwk, alg) ==
  /\ KtyFromAlg(alg).ok
  /\ Member(jwk, Name.kty) = Str(KtyFromAlg(alg).v)
  /\ Member(jwk, Name.alg).t = "str" => Member(jwk, Name.alg).s = alg
  /\ Member(jwk, Name.use).t = "str" => Member(jwk, Name.use).s = UseSig
  /\ Member(jwk, Name.key_ops).t = "arr"
       => \E i \in 1..Len(Member(jwk, Name.key_ops).kids) :
            Member(jwk, Name.key_ops).kids[i].val = Str(OpVerify)
  /\ CurveOfAlg(alg) # << >> => Member(jwk, Name.crv) = Str(CurveOfAlg(alg))

\* A fault: the header's kid is not looked at.
Candidates_AnyKid(keys, alg, kid) ==
  { i \in 1..Len(keys) : Compatible(keys[i], alg) }

\* The keys of the set the library selects among: compatible with the
\* algorithm and, when the header's kid is a string, carrying that kid.
Candidates(keys, alg, kid) ==
  { i \in 1..Len(keys) :
      /\ Compatible(keys[i], alg)
      /\ kid.t = "str" => Member(keys[i], Name.kid) = kid }

\* The member holding a key's public material.
MaterialName(kty) == IF kty = RSA THEN S(<< "n" >>) ELSE S(<< "x" >>)

Material(jwk) == Member(jwk, MaterialName(Member(jwk, Name.kty).s))

Checksum(txt) ==
  LET RECURSIVE Sum(_)
      Sum(s) == IF s = << >> THEN 0 ELSE Head(s) + Sum(Tail(s))
  IN  Sum(txt) % 256

\* The signature of a signing input under a key pair and an algorithm.
SignatureBytes(material, alg, input) ==
  Utf8Encode(material) \o Utf8Encode(alg) \o << Checksum(input) >>

\* A parseAndVerifyJwks call that took the steps and resolves with a status.
Run(status, steps) == [settled |-> "fulfilled", status |-> status, steps |-> steps]

\* A fault: the error is thrown on and the call rejects.
Failed_Rethrows(reason, steps) == [settled |-> "rejected", status |-> Null, steps |-> steps]

\* catch (err) { return { verified: false, message: ... } }: the error
\* thrown at any step is caught and the call resolves with a failure.
Failed(reason, steps) == Run(FailedStatus(reason), steps)

\* The claims of a verified token are validated: iat, nbf and exp, where
\* present, are numbers, nbf is not after the time and exp is after it.
validateClaims(alg, kid, payload, nowSec, steps) ==
  IF ~payload.ok \/ payload.v.t # "obj" THEN Failed(JoseError.claimsNotObject, steps)
  ELSE IF Member(payload.v, Name.iat).t \notin {"undef", "num"} THEN Failed(JoseError.iatNotNumber, steps)
  ELSE IF Member(payload.v, Name.nbf).t \notin {"undef", "num"} THEN Failed(JoseError.nbfNotNumber, steps)
  ELSE IF Member(payload.v, Name.nbf).t = "num" /\ Member(payload.v, Name.nbf).n > nowSec
  THEN Failed(JoseError.nbfInFuture, steps)
  ELSE IF Member(payload.v, Name.exp).t \notin {"undef", "num"} THEN Failed(JoseError.expNotNumber, steps)
  ELSE IF Member(payload.v, Name.exp).t = "num" /\ Member(payload.v, Name.exp).n <= nowSec
  THEN Failed(JoseError.expInPast, steps)
  ELSE Run(VerifiedStatus(alg, kid), steps)

\* A fault: the signature is decoded and not compared.
verifySignature_Unchecked(parts, alg, kid, material, signature, now, steps) ==
  IF ~signature.ok THEN Failed(JoseError.signatureNotBase64, steps)
  ELSE validateClaims(alg, kid, JoseDecodeJson(parts[2]), now \div MsPerSecond,
                      Append(steps, Step.claims))

\* The signature segment is decoded and checked against the signing input
\* under the selected key.
verifySignature(parts, alg, kid, material, signature, now, steps) ==
  IF ~signature.ok THEN Failed(JoseError.signatureNotBase64, steps)
  ELSE IF signature.v # SignatureBytes(material, alg.s, parts[1] \o << Ch.dot >> \o parts[2])
  THEN Failed(JoseError.signatureMismatch, steps)
  ELSE validateClaims(alg, kid, JoseDecodeJson(parts[2]), now \div MsPerSecond,
                      Append(steps, Step.claims))

\* The selected key is imported.
importKey(parts, alg, kid, jwk, now, steps) ==
  IF Material(jwk).t # "str" THEN Failed(JoseError.invalidKeyData, steps)
  ELSE verifySignature(parts, alg, kid, Material(jwk).s, Atob(UrlToStd(parts[3])), now,
                       Append(steps, Step.signature))

\* The key set's resolver: exactly one candidate is the key.
getKey(parts, alg, kid, keys, candidates, now, steps) ==
  IF candidates = {} THEN Failed(JoseError.noApplicableKey, steps)
  ELSE IF Cardinality(candidates) # 1 THEN Failed(JoseError.multipleMatchingKeys, steps)
  ELSE importKey(parts, alg, kid, keys[CHOOSE i \in candidates : TRUE], now,
                 Append(steps, Step.import))

\* The header's alg is checked against the algorithms option, then the key
\* is resolved.
checkAlgorithm(parts, alg, kid, keys, now, steps) ==
  IF alg.t # "str" \/ alg.s = << >> THEN Failed(JoseError.algMissing, steps)
  ELSE IF alg.s \notin AllowedAlgorithms
  THEN Failed(JoseError.algNotAllowed, Append(steps, Step.algorithms))
  ELSE IF ~KtyFromAlg(alg.s).ok
  THEN Failed(JoseError.algUnsupportedForJwks, steps \o << Step.algorithms, Step.getKey >>)
  ELSE getKey(parts, alg, kid, keys, Candidates(keys, alg.s, kid), now,
              steps \o << Step.algorithms, Step.getKey >>)

\* The protected header is parsed.
flattenedVerify(parts, header, keys, now, steps) ==
  IF ~header.ok THEN Failed(JoseError.headerInvalid, steps)
  ELSE checkAlgorithm(parts, Member(header.v, Name.alg), Member(header.v, Name.kid),
                      keys, now, steps)

\* jwtVerify(token, JWKS, { algorithms }): the token is split into its
\* three segments.
jwtVerify(tok, keys, now, steps) ==
  IF Len(Split(tok)) # 3 THEN Failed(JoseError.invalidCompactJws, steps)
  ELSE flattenedVerify(Split(tok), JoseDecodeJson(Split(tok)[1]), keys, now,
                       Append(steps, Step.header))

\* createLocalJWKSet(jwksData): every key of the set is an object.
createLocalJWKSet(keys, tok, now, steps) ==
  IF \E i \in 1..Len(keys) : keys[i].val.t # "obj" THEN Failed(JoseError.jwksMalformed, steps)
  ELSE jwtVerify(tok, [i \in 1..Len(keys) |-> keys[i].val], now, steps)

\* A fault: a value without a keys array is taken for an empty key set.
validateKeys_NoArrayCheck(keys, tok, now, steps) ==
  IF ~keys.ok THEN Failed(PropertyOfNull, steps)
  ELSE createLocalJWKSet(IF keys.v.t = "arr" THEN keys.v.kids ELSE << >>, tok, now,
                         Append(steps, Step.create))

\* if (!jwksData.keys || !Array.isArray(jwksData.keys)) throw ...; keys is
\* the read of jwksData.keys.
validateKeys(keys, tok, now, steps) ==
  IF ~keys.ok THEN Failed(PropertyOfNull, steps)
  ELSE IF ~Truthy(keys.v) \/ keys.v.t # "arr" THEN Failed(MissingKeysArray, steps)
  ELSE createLocalJWKSet(keys.v.kids, tok, now, Append(steps, Step.create))

\* const jwksData = JSON.parse(jwksContent)
parseJwks(jwksData, tok, now) ==
  IF ~jwksData.ok THEN Failed(JsonSyntaxError, << Step.parse >>)
  ELSE validateKeys(GetProp(jwksData.v, Name.keys), tok, now, << Step.parse, Step.validate >>)

\* One call of parseAndVerifyJwks: the status it resolves with and the
\* steps it took.
verifyRun(jwksContent, tok, now) == parseJwks(JsonParse(jwksContent), tok, now)

parseAndVerifyJwks(jwksContent, tok, now) == verifyRun(jwksContent, tok, now).status

(***************************************************************************)
(* The payload panel: formatJSON, formatTimestamp, formatPayloadDisplay.   *)
(***************************************************************************)
Spaces(n) == [i \in 1..n |-> 32]

\* JSON.stringify(value, null, 2) at nesting depth: a member or an element
\* a line, indented by two spaces a level; an empty object or array and a
\* primitive as JSON.stringify(value) writes them.
RECURSIVE Indented(_, _)
RECURSIVE IndentedItems(_, _, _)
Indented(value, depth) ==
  IF value.t \in {"arr", "obj"} /\ value.kids # << >>
  THEN << IF value.t = "obj" THEN Ch.lbrace ELSE Ch.lbracket, 10 >>
         \o IndentedItems(value.kids, value.t = "obj", depth + 1)
         \o << 10 >> \o Spaces(2 * depth)
         \o << IF value.t = "obj" THEN Ch.rbrace ELSE Ch.rbracket >>
  ELSE Stringify(value)

IndentedItems(items, members, depth) ==
  IF items = << >> THEN << >>
  ELSE Spaces(2 * depth)
         \o (IF members THEN Stringify(Str(items[1].k)) \o << Ch.colon, 32 >> ELSE << >>)
         \o Indented(items[1].val, depth)
         \o (IF Len(items) > 1 THEN << Ch.comma, 10 >> ELSE << >>)
         \o IndentedItems(Tail(items), members, depth)

\* formatJSON(obj)
formatJSON(obj) == Indented(obj, 0)

\* date.toLocaleString() of the date of ms milliseconds: the rendering is
\* the engine's, by locale and time zone; each stands for itself, as the
\* text Date(ms).
toLocaleString(ms) ==
  S(<< "D", "a", "t", "e", "(" >>) \o Stringify(Num(ms)) \o S(<< ")" >>)

\* formatTimestamp(timestamp): new Date(timestamp * 1000).toLocaleString()
formatTimestamp(timestamp) ==
  IF ToNumber(timestamp).ok THEN toLocaleString(ToNumber(timestamp).v * MsPerSecond)
  ELSE S(<< "I", "n", "v", "a", "l", "i", "d", " ", "D", "a", "t", "e" >>)

\* { ...payload }: the own members of the value, in a new object (the
\* elements of an array and the characters of a string by their index).
Spread(payload) ==
  CASE payload.t = "obj" -> payload.kids
    [] payload.t = "arr" ->
         [i \in 1..Len(payload.kids) |-> [k |-> Digits(i - 1), val |-> payload.kids[i].val]]
    [] payload.t = "str" ->
         [i \in 1..Len(payload.s) |-> [k |-> Digits(i - 1), val |-> Str(<< payload.s[i] >>)]]
    [] OTHER -> << >>

\* if (formatted[claim]) formatted[claim] =
\*   `${formatted[claim]} (${formatTimestamp(formatted[claim])})`
Annotate(formatted, claim) ==
  LET value == GetProp(Value("obj", 0, << >>, formatted), claim).v
  IN  IF Truthy(value)
      THEN PutMember(formatted, claim,
             Str(ToText(value) \o << 32, 40 >> \o formatTimestamp(value) \o << 41 >>))
      ELSE formatted

\* ['exp', 'iat', 'nbf'].forEach(claim => ...)
AnnotateAll(formatted) ==
  Annotate(Annotate(Annotate(formatted, Name.exp), Name.iat), Name.nbf)

\* A fault: formatted is the payload itself, not a copy of it.
formatPayloadDisplay_NoCopy(payload) ==
  IF ~Truthy(payload) THEN [payload |-> payload, text |-> << >>]
  ELSE [payload |-> IF payload.t = "obj"
                    THEN Value("obj", 0, << >>, AnnotateAll(payload.kids))
                    ELSE payload,
        text |-> formatJSON(Value("obj", 0, << >>, AnnotateAll(Spread(payload))))]

\* formatPayloadDisplay(payload): the text it returns, and the object it
\* was given as the call leaves it.
formatPayloadDisplay(payload) ==
  IF ~Truthy(payload) THEN [payload |-> payload, text |-> << >>]
  ELSE [payload |-> payload,
        text |-> formatJSON(Value("obj", 0, << >>, AnnotateAll(Spread(payload))))]

\* {decodedPayload && <JsonDisplay content={formatPayloadDisplay(decodedPayload)} />}
\* The component is rendered anew after every change of its state.
Render(payload) ==
  IF Truthy(payload) THEN formatPayloadDisplay(payload)
  ELSE [payload |-> payload, text |-> << >>]

(***************************************************************************)
(* The inputs the model types into the two text areas.                     *)
(***************************************************************************)
Text1(c) == S(<< c >>)

\* Headers.
HeaderRsKidA == Obj(<< << Name.alg, Str(RS256) >>, << Name.kid, Str(Text1("a")) >> >>)
HeaderRsNoKid == Obj(<< << Name.alg, Str(RS256) >> >>)
HeaderRsEmptyKid == Obj(<< << Name.alg, Str(RS256) >>, << Name.kid, Str(<< >>) >> >>)
HeaderEsKidE == Obj(<< << Name.alg, Str(ES256) >>, << Name.kid, Str(Text1("e")) >> >>)
HeaderHs == Obj(<< << Name.alg, Str(HS256) >> >>)
HeaderHsKidA == Obj(<< << Name.alg, Str(HS256) >>, << Name.kid, Str(Text1("a")) >> >>)
HeaderNone == Obj(<< << Name.alg, Str(NONE) >> >>)

\* Payloads.
PayloadSub == Obj(<< << S(<< "s", "u", "b" >>), Str(S(<< "1", "2", "3", "4", "5", "6", "7", "8", "9", "0" >>)) >> >>)
PayloadAccent == Obj(<< << S(<< "s", "u", "b" >>), Str(<< 233 >>) >> >>)
PayloadEmpty == Obj(<< >>)
PayloadExp(n) == Obj(<< << Name.exp, n >> >>)
PayloadNbf(n) == Obj(<< << Name.nbf, n >> >>)
PayloadTimes(iat, nbf, exp) ==
  Obj(<< << Name.iat, iat >>, << Name.nbf, nbf >>, << Name.exp, exp >> >>)

\* Keys: the material names the key pair.
RsaKey(kid, material) ==
  Obj(<< << Name.kty, Str(RSA) >>, << Name.kid, Str(kid) >>, << S(<< "n" >>), Str(material) >> >>)
RsaKeyNoKid(material) ==
  Obj(<< << Name.kty, Str(RSA) >>, << S(<< "n" >>), Str(material) >> >>)
EcKey(kid, material) ==
  Obj(<< << Name.kty, Str(EC) >>, << Name.kid, Str(kid) >>,
         << Name.crv, Str(CurveOfAlg(ES256)) >>, << S(<< "x" >>), Str(material) >> >>)

KeyA == RsaKey(Text1("a"), Text1("A"))
KeyB == RsaKey(Text1("b"), Text1("B"))
KeyAOther == RsaKey(Text1("a"), Text1("B"))
KeyEmptyKid == RsaKey(<< >>, Text1("A"))
KeyE == EcKey(Text1("e"), Text1("E"))

Jwks(keys) == Stringify(Obj(<< << Name.keys, Arr(keys) >> >>))

\* The signature segment of a token signed with a key pair.
SignedWith(material, header, payload) ==
  Base64UrlEncode(
    SignatureBytes(material, Member(header, Name.alg).s,
      EncodeSegment(Stringify(header)) \o << Ch.dot >> \o EncodeSegment(Stringify(payload))))

\* base64url(JSON(header)) + '.' + base64url(JSON(payload)) + '.' + signature
Compact(header, payload, signature) ==
  EncodeSegment(Stringify(header)) \o << Ch.dot >> \o EncodeSegment(Stringify(payload))
    \o << Ch.dot >> \o signature

Signed(material, header, payload) ==
  Compact(header, payload, SignedWith(material, header, payload))

\* The largest expiry, in seconds, and the latest clock reading.
MaxSeconds == 1

Clock == {0} \cup { s * MsPerSecond + d : s \in 1..MaxSeconds, d \in {0, 1} }

ExpValues == { Num(n) : n \in -1..MaxSeconds } \cup { Str(Digits(1)) }

SignedTokens ==
  { Signed(Text1("A"), HeaderRsKidA, PayloadSub),
    Signed(Text1("A"), HeaderRsNoKid, PayloadSub),
    Signed(Text1("A"), HeaderRsEmptyKid, PayloadSub),
    Signed(Text1("B"), HeaderRsKidA, PayloadSub),
    Signed(Text1("E"), HeaderEsKidE, PayloadAccent),
    Signed(Text1("A"), HeaderHsKidA, PayloadSub),
    Signed(Text1("A"), HeaderRsKidA, PayloadNbf(Num(1))),
    Signed(Text1("A"), HeaderRsNoKid, PayloadTimes(Num(1), Num(0), Num(2))),
    Compact(HeaderHs, PayloadSub, S(<< "s", "i", "g", "n", "a", "t", "u", "r", "e" >>)),
    Compact(HeaderNone, PayloadEmpty, << >>) }
  \cup { Signed(Text1("A"), HeaderRsKidA, PayloadExp(n)) : n \in ExpValues }

\* Tokens built from a header and a payload with a signature segment of any
\* content, each with the objects it was built from.
RoundTrips ==
  { [token |-> Compact(h, p, sig), header |-> h, payload |-> p] :
      h \in {HeaderHs, HeaderHsKidA},
      p \in {PayloadSub, PayloadAccent},
      sig \in {<< >>, S(<< "s", "i", "g", "n", "a", "t", "u", "r", "e" >>)} }

\* Texts that are no well-formed token of three segments.
OddTokens ==
  LET h == EncodeSegment(Stringify(HeaderRsKidA))
      p == EncodeSegment(Stringify(PayloadSub))
      notJson == EncodeSegment(S(<< "{", "a", "}" >>))
      dot == << Ch.dot >>
  IN  { << 32 >>,
        S(<< "a", "b", "c" >>),
        h \o dot,
        dot \o p,
        h \o dot \o dot \o p,
        h \o dot \o p,
        Signed(Text1("A"), HeaderRsKidA, PayloadSub) \o dot \o S(<< "x" >>),
        S(<< "a" >>) \o dot \o p \o dot,
        S(<< "_", "w" >>) \o dot \o p \o dot,
        h \o dot \o S(<< "!", "!" >>) \o dot,
        notJson \o dot \o p \o dot,
        h \o dot \o notJson \o dot,
        S(<< "a" >>) \o dot \o notJson \o dot,
        notJson \o dot \o S(<< "!", "!" >>) \o dot,
        h \o dot \o S(<< "_", "w" >>) \o dot,
        << 32 >> \o h \o dot \o p \o dot,
        h \o dot \o EncodeSegment(Stringify(Null)) \o dot,
        h \o dot \o EncodeSegment(Stringify(Num(5))) \o dot,
        EncodeSegment(Stringify(Arr(<< >>))) \o dot \o p \o dot,
        EncodeSegment(Stringify(Null)) \o dot \o p \o dot }

Tokens == SignedTokens \cup { r.token : r \in RoundTrips } \cup OddTokens

JwksTexts ==
  { Jwks(<< KeyA >>),
    Jwks(<< KeyB >>),
    Jwks(<< KeyAOther >>),
    Jwks(<< KeyB, KeyA >>),
    Jwks(<< KeyEmptyKid >>),
    Jwks(<< KeyE, RsaKeyNoKid(Text1("A")) >>),
    Jwks(<< >>),
    Jwks(<< Num(1) >>),
    Stringify(Obj(<< >>)),
    Stringify(Null),
    S(<< "{", "k" >>),
    << 32 >> }

(***************************************************************************)
(* The theme: the state of ThemeProvider and of the menu of ThemeToggle,   *)
(* and what the two effects of ThemeProvider keep of it in the browser.    *)
(***************************************************************************)
VARIABLES
  themeState,       \* useState of ThemeProvider: [isDark, source]
  systemDark,       \* matchMedia('(prefers-color-scheme: dark)').matches
  rootDark,         \* document.documentElement has the class 'dark'
  storedDarkMode,   \* localStorage.getItem('darkMode'): null or a string
  listening,        \* handleChange listens to the media query
  isOpen,           \* useState of ThemeToggle: the menu is open
  themeEvent        \* the latest event of the theme and themeState before it

themeVars == << themeState, systemDark, rootDark, storedDarkMode, listening, isOpen,
                themeEvent >>

\* The sources of a ThemeState.
Sources == { "system", "user", "localStorage" }

\* The state ThemeProvider starts from when window.__INITIAL_THEME_STATE__
\* is not set.
Fallback == [isDark |-> FALSE, source |-> "system"]

\* A fault: the item records the theme only when the user chose it.
ApplyTheme_UserOnly(state) ==
  [rootDark |-> state.isDark,
   storedDarkMode |-> Str(Stringify(Bool(state.isDark /\ state.source = "user")))]

\* The first effect of ThemeProvider: the class of the root element and
\* the item of localStorage it leaves for a state.
ApplyTheme(state) ==
  [rootDark |-> state.isDark, storedDarkMode |-> Str(Stringify(Bool(state.isDark)))]

\* A fault: the media query is listened to whatever the source.
Subscribed_AnySource(state) == TRUE

\* The second effect of ThemeProvider: whether handleChange listens to the
\* media query once the effect has run for a state.
Subscribed(state) == state.source = "system"

\* ThemeProvider and ThemeToggle as constructed with the initial state,
\* before their effects have run: the page has the class and the item it
\* was loaded with, and nothing listens to the media query.
ThemeConstructed(state, os, class, item) ==
  /\ themeState = state
  /\ systemDark = os
  /\ rootDark = class
  /\ storedDarkMode = item
  /\ listening = FALSE
  /\ isOpen = FALSE
  /\ themeEvent = [kind |-> "construct", before |-> state]

\* ThemeProvider and ThemeToggle as mounted with the initial state and the
\* colour scheme of the system os, their effects run.
ThemeMounted(state, os) ==
  /\ themeState = state
  /\ systemDark = os
  /\ rootDark = ApplyTheme(state).rootDark
  /\ storedDarkMode = ApplyTheme(state).storedDarkMode
  /\ listening = Subscribed(state)
  /\ isOpen = FALSE
  /\ themeEvent = [kind |-> "mount", before |-> state]

(***************************************************************************)
(* The Mermaid viewer: its state, the timers of the debounce effect and    *)
(* the mermaid.render calls awaited.                                       *)
(***************************************************************************)
VARIABLES
  code,           \* useState: the text of the diagram
  svg,            \* useState: the rendered diagram, '' for none
  diagramError,   \* useState error of MermaidViewer: the message, '' for none
  timers,         \* the timeouts set and not fired or cleared, oldest first
  renders,        \* the mermaid.render calls awaited, oldest first
  sinceChange,    \* the milliseconds since code was set, up to DebounceMs
  replaced        \* the code last replaced while its timer was pending

viewerVars == << code, svg, diagramError, timers, renders, sinceChange, replaced >>

\* The delay of the debounce effect.
DebounceMs == 500

\* The most mermaid.render calls awaited at a time.
MaxRenders == 2

InvalidDiagram == "Invalid diagram syntax. Please check your Mermaid code."

\* The code the viewer starts with.
InitialCode == S(<< "g", "r", "a", "p", "h" >>)

\* The texts mermaid renders; it rejects every other text.
Diagrams == { InitialCode, Text1("A"), Text1("B") }

\* The texts typed into the text area, or loaded as an example.
Codes == Diagrams \cup { << >>, << 32 >>, Text1("x") }

\* mermaid.render('graph-div', code): the promise is fulfilled with the svg
\* of a diagram and rejected for a text that is none.
mermaidRender(text) ==
  IF text \in Diagrams THEN Ok(S(<< "<", "s", "v", "g", ">" >>) \o text) ELSE Fail

\* The lapses of time the model lets pass at once.
Lapses == { DebounceMs \div 2, DebounceMs }

\* setTimeout(() => renderDiagram(), 500) of the render with the code text.
Timer(text) == [code |-> text, waited |-> 0]

\* MermaidViewer as mounted: the debounce effect has set its first timer.
ViewerMounted ==
  /\ code = InitialCode
  /\ svg = << >>
  /\ diagramError = NoError
  /\ timers = << Timer(InitialCode) >>
  /\ renders = << >>
  /\ sinceChange = 0
  /\ replaced = [any |-> FALSE, code |-> << >>]

(***************************************************************************)
(* The component: its state, the two text areas, the Decode button, and    *)
(* the continuation of decodeToken after its await.                        *)
(***************************************************************************)
VARIABLES
  token,            \* useState: the token text area
  jwks,             \* useState: the JWKS text area
  decodedHeader,    \* useState: null or the parsed header
  decodedPayload,   \* useState: null or the parsed payload
  signatureStatus,  \* useState: null or { verified, message }
  error,            \* useState: the message shown, '' for none
  isVerifying,      \* useState: a verification is awaited
  payloadDisplay,   \* the text of the payload panel, empty when it is not shown
  pending,          \* the parseAndVerifyJwks calls awaited, oldest first
  now,              \* the clock, in milliseconds
  lastDecode,       \* the latest decodeToken call: its token, key set and time,
                    \* and whether it decoded again, at a later time, the
                    \* token the call before it found expired
  lastVerify        \* the latest settled parseAndVerifyJwks call

decoderVars == << token, jwks, decodedHeader, decodedPayload, signatureStatus, error,
                  isVerifying, payloadDisplay, pending, now, lastDecode, lastVerify >>

vars == << decoderVars, themeVars, viewerVars >>

NoCall == [called |-> FALSE]

\* The component as mounted, with the text areas holding tok and keySet.
DecoderMounted(tok, keySet) ==
  /\ token = tok
  /\ jwks = keySet
  /\ decodedHeader = Null
  /\ decodedPayload = Null
  /\ signatureStatus = Null
  /\ error = NoError
  /\ isVerifying = FALSE
  /\ payloadDisplay = << >>
  /\ pending = << >>
  /\ now \in Clock
  /\ lastDecode = NoCall
  /\ lastVerify = NoCall

\* The page of the decoder as mounted, in the light theme of the system.
Mounted(tok, keySet) ==
  /\ DecoderMounted(tok, keySet)
  /\ ThemeMounted(Fallback, FALSE)
  /\ ViewerMounted

\* useState('') for both text areas.
Init == Mounted(<< >>, << >>)

\* onChange of the token text area.
SetToken(t) ==
  /\ t # token
  /\ token' = t
  /\ decodedPayload' = Render(decodedPayload).payload
  /\ payloadDisplay' = Render(decodedPayload).text
  /\ UNCHANGED << jwks, decodedHeader, signatureStatus, error,
                  isVerifying, pending, now, lastDecode, lastVerify >>
  /\ UNCHANGED << themeVars, viewerVars >>

\* onChange of the JWKS text area.
SetJwks(j) ==
  /\ j # jwks
  /\ jwks' = j
  /\ decodedPayload' = Render(decodedPayload).payload
  /\ payloadDisplay' = Render(decodedPayload).text
  /\ UNCHANGED << token, decodedHeader, signatureStatus, error,
                  isVerifying, pending, now, lastDecode, lastVerify >>
  /\ UNCHANGED << themeVars, viewerVars >>

\* The state decodeToken leaves when it has decoded d and awaits the
\* verification (verify) or is done.
Decode(d, verify) ==
  /\ decodedHeader' = d.header
  /\ decodedPayload' = Render(d.payload).payload
  /\ payloadDisplay' = Render(d.payload).text
  /\ error' = d.error
  /\ signatureStatus' = Null
  /\ isVerifying' = verify
  /\ pending' = IF verify THEN Append(pending, [jwks |-> jwks, token |-> token])
                ELSE pending
  /\ lastDecode' = [called |-> TRUE, token |-> token, jwks |-> jwks, now |-> now,
                    recheck |-> /\ lastDecode.called
                                /\ lastDecode.token = token
                                /\ lastDecode.now < now
                                /\ error = ExpiredWarning]
  /\ UNCHANGED << token, jwks, now, lastVerify >>
  /\ UNCHANGED << themeVars, viewerVars >>

\* A fault: the key-set text is tested without trimming it.
Verifies_Untrimmed(d, keySet) == d.reached /\ keySet # << >>

\* What decodeToken awaits: parseAndVerifyJwks, when the token decoded and
\* jwks.trim() is not empty.
Verifies(d, keySet) == d.reached /\ ~IsBlank(keySet)

\* A fault: the Decode button is never disabled.
ClickDecode_NeverDisabled ==
  Decode(decodeToken(token, now), Verifies(decodeToken(token, now), jwks))

\* onClick of the Decode button (disabled while isVerifying): decodeToken up
\* to its await, or to its end when it awaits nothing.
ClickDecode ==
  /\ ~isVerifying
  /\ Decode(decodeToken(token, now), Verifies(decodeToken(token, now), jwks))

\* A fault: a verification that fails takes the decoded token off the page.
Resume_ClearsOnFailure(i, run) ==
  /\ signatureStatus' = IF run.settled = "fulfilled" THEN run.status ELSE signatureStatus
  /\ error' = IF run.settled = "fulfilled" THEN error ELSE InvalidJwksFormat
  /\ isVerifying' = FALSE
  /\ pending' = SubSeq(pending, 1, i - 1) \o SubSeq(pending, i + 1, Len(pending))
  /\ lastVerify' = [called |-> TRUE, jwks |-> pending[i].jwks, token |-> pending[i].token,
                    now |-> now, settled |-> run.settled, status |-> run.status,
                    steps |-> run.steps]
  /\ decodedHeader' = IF run.status.verified THEN decodedHeader ELSE Null
  /\ decodedPayload' = IF run.status.verified THEN Render(decodedPayload).payload ELSE Null
  /\ payloadDisplay' = IF run.status.verified THEN Render(decodedPayload).text ELSE << >>
  /\ UNCHANGED << token, jwks, now, lastDecode >>
  /\ UNCHANGED << themeVars, viewerVars >>

\* A fault: isVerifying is reset on the Verified outcome only.
Resume_KeepsVerifyingOnFailure(i, run) ==
  /\ signatureStatus' = IF run.settled = "fulfilled" THEN run.status ELSE signatureStatus
  /\ error' = IF run.settled = "fulfilled" THEN error ELSE InvalidJwksFormat
  /\ isVerifying' = ~(run.settled = "fulfilled" /\ run.status.verified)
  /\ pending' = SubSeq(pending, 1, i - 1) \o SubSeq(pending, i + 1, Len(pending))
  /\ lastVerify' = [called |-> TRUE, jwks |-> pending[i].jwks, token |-> pending[i].token,
                    now |-> now, settled |-> run.settled, status |-> run.status,
                    steps |-> run.steps]
  /\ decodedPayload' = Render(decodedPayload).payload
  /\ payloadDisplay' = Render(decodedPayload).text
  /\ UNCHANGED << token, jwks, decodedHeader, now, lastDecode >>
  /\ UNCHANGED << themeVars, viewerVars >>

\* A fault: the result of a call is dropped when a newer call is awaited.
Resume_NewestWins(i, run) ==
  /\ signatureStatus' = IF run.settled = "fulfilled" /\ i = Len(pending)
                         THEN run.status ELSE signatureStatus
  /\ error' = IF run.settled = "fulfilled" THEN error ELSE InvalidJwksFormat
  /\ isVerifying' = FALSE
  /\ pending' = SubSeq(pending, 1, i - 1) \o SubSeq(pending, i + 1, Len(pending))
  /\ lastVerify' = [called |-> TRUE, jwks |-> pending[i].jwks, token |-> pending[i].token,
                    now |-> now, settled |-> run.settled, status |-> run.status,
                    steps |-> run.steps]
  /\ decodedPayload' = Render(decodedPayload).payload
  /\ payloadDisplay' = Render(decodedPayload).text
  /\ UNCHANGED << token, jwks, decodedHeader, now, lastDecode >>
  /\ UNCHANGED << themeVars, viewerVars >>

\* decodeToken resumes with the result of the call it awaited:
\* setSignatureStatus(verificationResult), or setError('Invalid JWKS
\* format: ' + ...) when the call rejected; then setIsVerifying(false).
Resume(i, run) ==
  /\ signatureStatus' = IF run.settled = "fulfilled" THEN run.status ELSE signatureStatus
  /\ error' = IF run.settled = "fulfilled" THEN error ELSE InvalidJwksFormat
  /\ isVerifying' = FALSE
  /\ pending' = SubSeq(pending, 1, i - 1) \o SubSeq(pending, i + 1, Len(pending))
  /\ lastVerify' = [called |-> TRUE, jwks |-> pending[i].jwks, token |-> pending[i].token,
                    now |-> now, settled |-> run.settled, status |-> run.status,
                    steps |-> run.steps]
  /\ decodedPayload' = Render(decodedPayload).payload
  /\ payloadDisplay' = Render(decodedPayload).text
  /\ UNCHANGED << token, jwks, decodedHeader, now, lastDecode >>
  /\ UNCHANGED << themeVars, viewerVars >>

\* The awaited parseAndVerifyJwks call settles.
Resolve(i) == Resume(i, verifyRun(pending[i].jwks, pending[i].token, now))

\* Time passes.
Tick ==
  /\ \E t \in Clock : t > now /\ now' = t
  /\ UNCHANGED << token, jwks, decodedHeader, decodedPayload, signatureStatus, error,
                  isVerifying, payloadDisplay, pending, lastDecode, lastVerify >>
  /\ UNCHANGED << themeVars, viewerVars >>

\* The texts a session types, one after another, into the text areas.
TypedTokens ==
  { << >>,
    Signed(Text1("A"), HeaderRsKidA, PayloadSub),
    Signed(Text1("A"), HeaderRsKidA, PayloadExp(Num(1))),
    S(<< "a", "b", "c" >>) }

TypedJwks == { << >>, Jwks(<< KeyA >>), Jwks(<< KeyB >>) }

Next ==
  \/ \E t \in TypedTokens : SetToken(t)
  \/ \E j \in TypedJwks : SetJwks(j)
  \/ ClickDecode
  \/ \E i \in 1..Len(pending) : Resolve(i)
  \/ Tick

\* A session of the page: the texts are typed, changed and decoded in any
\* order.
Spec == Init /\ [][Next]_vars

\* A session in which every awaited parseAndVerifyJwks call settles: the
\* promise of the call is settled by the runtime once the call has run, and
\* the continuation of decodeToken is then run from the microtask queue.
\* This is weak fairness of the step \E i : Resolve(i), written out: the
\* step is enabled exactly when a call is awaited, and it is the only step
\* that takes a call off pending.
FairSpec ==
  Spec /\ ([]<>(pending = << >>) \/ []<><<Len(pending') < Len(pending)>>_vars)

\* The most decodeToken calls awaiting their verification at a time, when
\* the calls are made without the button.
MaxCalls == 2

\* decodeToken invoked as a function, not through the Decode button: a
\* call may start while an earlier one awaits its verification.
InvokeDecode ==
  /\ Len(pending) < MaxCalls
  /\ Decode(decodeToken(token, now), Verifies(decodeToken(token, now), jwks))

NextOverlap ==
  \/ \E j \in TypedJwks : SetJwks(j)
  \/ InvokeDecode
  \/ \E i \in 1..Len(pending) : Resolve(i)

\* Overlapping decodeToken calls on a token that has been typed: the
\* handler is called again before the call it awaits has settled, the
\* key-set text is changed between the calls, and the awaited calls settle
\* in any order.
InitOverlap == \E t \in TypedTokens : Mounted(t, << >>)

SpecOverlap == InitOverlap /\ [][NextOverlap]_vars

\* decode and verify as functions of their inputs: the text areas hold any
\* token and any key-set text of the model, and the token is decoded and
\* verified as time passes.
InitCalls == \E t \in Tokens \cup {<< >>}, j \in JwksTexts \cup {<< >>} : Mounted(t, j)

NextCalls ==
  \/ ClickDecode
  \/ \E i \in 1..Len(pending) : Resolve(i)
  \/ Tick

SpecCalls == InitCalls /\ [][NextCalls]_vars

(***************************************************************************)
(* The theme: the menu of ThemeToggle, the listener of the colour scheme   *)
(* of the system, and the effects that follow every render.                *)
(***************************************************************************)
\* ThemeProvider renders with the state next and its effects run, each when
\* its dependency changed: themeState.isDark for the class and the item,
\* themeState.source for the listener.
Commit(next) ==
  /\ themeState' = next
  /\ rootDark' = IF next.isDark # themeState.isDark
                  THEN ApplyTheme(next).rootDark ELSE rootDark
  /\ storedDarkMode' = IF next.isDark # themeState.isDark
                        THEN ApplyTheme(next).storedDarkMode ELSE storedDarkMode
  /\ listening' = IF next.source # themeState.source
                   THEN Subscribed(next) ELSE listening

\* The effects of the first render: both run, before any event is handled.
Mount ==
  /\ themeEvent.kind = "construct"
  /\ rootDark' = ApplyTheme(themeState).rootDark
  /\ storedDarkMode' = ApplyTheme(themeState).storedDarkMode
  /\ listening' = Subscribed(themeState)
  /\ themeEvent' = [kind |-> "mount", before |-> themeState]
  /\ UNCHANGED << themeState, systemDark, isOpen >>
  /\ UNCHANGED << decoderVars, viewerVars >>

\* onClick of the button of ThemeToggle: the menu opens or closes.
ToggleMenu ==
  /\ themeEvent.kind # "construct"
  /\ isOpen' = ~isOpen
  /\ themeEvent' = [kind |-> "menu", before |-> themeState]
  /\ UNCHANGED << themeState, systemDark, rootDark, storedDarkMode, listening >>
  /\ UNCHANGED << decoderVars, viewerVars >>

\* onClick of Light, Dark or System in the open menu.
setTheme(isDark, source) ==
  /\ isOpen
  /\ Commit([isDark |-> isDark, source |-> source])
  /\ isOpen' = FALSE
  /\ themeEvent' = [kind |-> source, before |-> themeState]
  /\ UNCHANGED systemDark
  /\ UNCHANGED << decoderVars, viewerVars >>

\* The colour scheme of the system changes: handleChange, when it listens,
\* sets isDark to e.matches and keeps the source.
SystemChange ==
  /\ themeEvent.kind # "construct"
  /\ systemDark' = ~systemDark
  /\ Commit(IF listening THEN [themeState EXCEPT !.isDark = ~systemDark] ELSE themeState)
  /\ themeEvent' = [kind |-> "change", before |-> themeState]
  /\ UNCHANGED isOpen
  /\ UNCHANGED << decoderVars, viewerVars >>

NextTheme ==
  \/ Mount
  \/ ToggleMenu
  \/ \E isDark \in BOOLEAN : setTheme(isDark, "user")
  \/ setTheme(systemDark, "system")
  \/ SystemChange

\* The theme of the site: ThemeProvider starts from the fallback or from any
\* state window.__INITIAL_THEME_STATE__ holds, under either colour scheme of
\* the system and with any class and item left on the page; its effects
\* run, then themes are selected and the colour scheme changes, in any
\* order.
InitTheme ==
  /\ DecoderMounted(<< >>, << >>)
  /\ now = 0
  /\ \E isDark \in BOOLEAN, source \in Sources, os \in BOOLEAN, class \in BOOLEAN,
        item \in { Null, Str(Stringify(Bool(TRUE))), Str(Stringify(Bool(FALSE))) } :
       ThemeConstructed([isDark |-> isDark, source |-> source], os, class, item)
  /\ ViewerMounted

SpecTheme == InitTheme /\ [][NextTheme]_vars

(***************************************************************************)
(* The Mermaid viewer: typing, the debounce effect and renderDiagram.      *)
(***************************************************************************)
\* The sequence without its i-th element.
Without(seq, i) == SubSeq(seq, 1, i - 1) \o SubSeq(seq, i + 1, Len(seq))

\* A fault: the effect has no cleanup.
ClearTimeout_Never(ts) == ts

\* The cleanup of the debounce effect: clearTimeout of the timer the effect
\* set, the newest one, when it has not fired.
ClearTimeout(ts) == IF ts = << >> THEN ts ELSE SubSeq(ts, 1, Len(ts) - 1)

\* onChange of the text area, or loadExample: setCode, the render with the
\* new code, the cleanup of the debounce effect and the effect again.
SetCode(text) ==
  /\ text # code
  /\ code' = text
  /\ timers' = Append(ClearTimeout(timers), Timer(text))
  /\ sinceChange' = 0
  /\ replaced' = IF timers # << >> THEN [any |-> TRUE, code |-> code] ELSE replaced
  /\ UNCHANGED << svg, diagramError, renders >>
  /\ UNCHANGED << decoderVars, themeVars >>

\* Time passes.
Pass(ms) ==
  /\ sinceChange < DebounceMs
  /\ sinceChange' = IF sinceChange + ms > DebounceMs THEN DebounceMs ELSE sinceChange + ms
  /\ timers' = [i \in 1..Len(timers) |->
                  [timers[i] EXCEPT !.waited = IF @ + ms > DebounceMs THEN DebounceMs
                                                ELSE @ + ms]]
  /\ UNCHANGED << code, svg, diagramError, renders, replaced >>
  /\ UNCHANGED << decoderVars, themeVars >>

\* A fault: a result is kept only when it is of the code on the page.
Settle_LatestOnly(i, result) ==
  /\ svg' = IF result.ok /\ renders[i].code = code THEN result.v ELSE svg
  /\ diagramError' = IF result.ok \/ renders[i].code # code THEN diagramError
                      ELSE InvalidDiagram
  /\ renders' = Without(renders, i)
  /\ UNCHANGED << code, timers, sinceChange, replaced >>
  /\ UNCHANGED << decoderVars, themeVars >>

\* renderDiagram resumes with the result of the mermaid.render call it
\* awaited: setSvg(svg), or setError(...) when the call rejected.
Settle(i, result) ==
  /\ svg' = IF result.ok THEN result.v ELSE svg
  /\ diagramError' = IF result.ok THEN diagramError ELSE InvalidDiagram
  /\ renders' = Without(renders, i)
  /\ UNCHANGED << code, timers, sinceChange, replaced >>
  /\ UNCHANGED << decoderVars, themeVars >>

\* A timer fires after its delay: renderDiagram, of the render that set
\* the timer, up to its await or to its end when the code is blank.
TimerFires(i) ==
  /\ timers[i].waited >= DebounceMs
  /\ IsBlank(timers[i].code) \/ Len(renders) < MaxRenders
  /\ timers' = Without(timers, i)
  /\ svg' = IF IsBlank(timers[i].code) THEN << >> ELSE svg
  /\ diagramError' = NoError
  /\ renders' = IF IsBlank(timers[i].code) THEN renders
                 ELSE Append(renders, [code |-> timers[i].code])
  /\ UNCHANGED << code, sinceChange, replaced >>
  /\ UNCHANGED << decoderVars, themeVars >>

\* An awaited mermaid.render call settles.
RenderSettles(i) == Settle(i, mermaidRender(renders[i].code))

NextViewer ==
  \/ \E text \in Codes : SetCode(text)
  \/ \E ms \in Lapses : Pass(ms)
  \/ \E i \in 1..Len(timers) : TimerFires(i)
  \/ \E i \in 1..Len(renders) : RenderSettles(i)

\* A session of the viewer: the code is typed and changed as time passes,
\* and the renders settle in any order.
InitViewer ==
  /\ DecoderMounted(<< >>, << >>)
  /\ now = 0
  /\ ThemeMounted(Fallback, FALSE)
  /\ ViewerMounted

SpecViewer == InitViewer /\ [][NextViewer]_vars

(***************************************************************************)
(* The outcomes of verify, as the specification names them: the code tells *)
(* them apart by the reason in the message.                                *)
(***************************************************************************)
Reason(status) == status.message.reason

IsVerified(status) == status.verified

\* The key-set text is rejected before a key set is made of it.
IsInvalidKeySet(status) ==
  ~status.verified /\ Reason(status) \in {JsonSyntaxError, PropertyOfNull, MissingKeysArray}

IsUnsupportedAlgorithm(status) ==
  ~status.verified /\ Reason(status) = JoseError.algNotAllowed

IsNoMatchingKey(status) ==
  ~status.verified /\ Reason(status) = JoseError.noApplicableKey

\* Any other rejection by the verification routine.
IsFailed(status) ==
  /\ ~status.verified
  /\ Reason(status) \notin {JsonSyntaxError, PropertyOfNull, MissingKeysArray,
                            JoseError.jwksMalformed, JoseError.algNotAllowed,
                            JoseError.noApplicableKey}

\* The allow-list, as the specification states it.
AllowList == { S(<< "R", "S", "2", "5", "6" >>), S(<< "R", "S", "3", "8", "4" >>),
               S(<< "R", "S", "5", "1", "2" >>), S(<< "E", "S", "2", "5", "6" >>),
               S(<< "E", "S", "3", "8", "4" >>), S(<< "E", "S", "5", "1", "2" >>) }

(***************************************************************************)
(* What the claims read of a token and of a key-set text.  Both are        *)
(* worked out once for every text of the model and looked up by the text.  *)
(***************************************************************************)
\* The protected header a token declares and the claims it carries
\* (undefined where the segment is missing or is no base64url of JSON).
HeaderOf(tok) ==
  IF JoseDecodeJson(Head(Split(tok))).ok THEN JoseDecodeJson(Head(Split(tok))).v
  ELSE Undefined

ClaimsOf(tok) ==
  IF Len(Split(tok)) >= 2 /\ JoseDecodeJson(Split(tok)[2]).ok
  THEN JoseDecodeJson(Split(tok)[2]).v
  ELSE Undefined

\* The token carries the signature its signing input has under the key pair.
SignedBy(tok, material) ==
  /\ Len(Split(tok)) = 3
  /\ Member(HeaderOf(tok), Name.alg).t = "str"
  /\ Atob(UrlToStd(Split(tok)[3]))
       = Ok(SignatureBytes(material, Member(HeaderOf(tok), Name.alg).s,
                           Split(tok)[1] \o << Ch.dot >> \o Split(tok)[2]))

\* The key pairs of the model.
Materials == { Text1("A"), Text1("B"), Text1("E") }

RECURSIVE NonEmpty(_)
\* The number of non-empty segments.
NonEmpty(parts) ==
  IF parts = << >> THEN 0
  ELSE (IF Head(parts) = << >> THEN 0 ELSE 1) + NonEmpty(Tail(parts))

\* A segment that base64url-decodes to a text that is no JSON.
DecodesToNonJson(segment) ==
  /\ base64URLDecode(segment).ok
  /\ ~JsonParse(base64URLDecode(segment).v).ok

\* Base64 as RFC 4648 writes it: characters of the alphabet in groups of
\* four, the last group closed by at most two '='.
ValidBase64(s) ==
  /\ Len(s) % 4 = 0
  /\ \A i \in 1..Len(s) :
       \/ IsB64Char(s[i])
       \/ s[i] = Ch.equals /\ i >= Len(s) - 1 /\ (i = Len(s) \/ s[Len(s)] = Ch.equals)

\* Base64 as a forgiving decoder takes it: ASCII whitespace is ignored and
\* the closing '=' may be left out.
ForgivingBase64(s) ==
  LET d == StripSpace(s)
      n == IF Len(d) % 4 = 0 /\ Len(d) > 0 /\ d[Len(d)] = Ch.equals
           THEN (IF d[Len(d) - 1] = Ch.equals THEN Len(d) - 2 ELSE Len(d) - 1)
           ELSE Len(d)
  IN  /\ n % 4 # 1
      /\ \A i \in 1..n : IsB64Char(d[i])

\* The segment as the specification pads it: '-' to '+', '_' to '/', then
\* '=' up to a multiple of four.
PaddedSegment(segment) == Pad(UrlToStd(segment))

\* The padded segment is base64 (in the sense of valid) of bytes that are
\* no UTF-8.
NotUtf8(segment, valid(_)) ==
  /\ valid(PaddedSegment(segment))
  /\ Atob(PaddedSegment(segment)).ok
  /\ ~Utf8Decode(Atob(PaddedSegment(segment)).v).ok

\* The segment is not valid base64 or does not decode to valid UTF-8.
BadEncoding(segment, valid(_)) ==
  ~valid(PaddedSegment(segment)) \/ NotUtf8(segment, valid)

\* A segment that base64url-decodes to the JSON text of an object.
DecodesToMapping(segment) ==
  /\ DecodePart(segment).ok
  /\ DecodePart(segment).v.t = "obj"

\* The token has a header and a payload segment to decode.
HasTwoSegments(tok) ==
  /\ ~IsBlank(tok)
  /\ Len(Split(tok)) >= 2
  /\ Split(tok)[1] # << >>
  /\ Split(tok)[2] # << >>

TokenFacts ==
  { [token |-> t,
     segments |-> Len(Split(t)),
     nonEmpty |-> NonEmpty(Split(t)),
     header |-> HeaderOf(t),
     claims |-> ClaimsOf(t),
     signers |-> { m \in Materials : SignedBy(t, m) },
     twoSegments |-> HasTwoSegments(t),
     headerNonJson |-> HasTwoSegments(t) /\ DecodesToNonJson(Split(t)[1]),
     headerJson |-> HasTwoSegments(t) /\ DecodePart(Split(t)[1]).ok,
     payloadNonJson |-> HasTwoSegments(t) /\ DecodesToNonJson(Split(t)[2]),
     parsedHeader |-> IF HasTwoSegments(t) /\ DecodePart(Split(t)[1]).ok
                      THEN DecodePart(Split(t)[1]).v ELSE Undefined,
     parsedPayload |-> IF HasTwoSegments(t) /\ DecodePart(Split(t)[2]).ok
                       THEN DecodePart(Split(t)[2]).v ELSE Undefined,
     headerMapping |-> HasTwoSegments(t) /\ DecodesToMapping(Split(t)[1]),
     payloadMapping |-> HasTwoSegments(t) /\ DecodesToMapping(Split(t)[2]),
     headerBad |-> HasTwoSegments(t) /\ BadEncoding(Split(t)[1], ValidBase64),
     payloadBad |-> HasTwoSegments(t) /\ BadEncoding(Split(t)[2], ValidBase64),
     headerUnreadable |-> HasTwoSegments(t) /\ BadEncoding(Split(t)[1], ForgivingBase64),
     payloadUnreadable |-> HasTwoSegments(t) /\ BadEncoding(Split(t)[2], ForgivingBase64),
     headerNotUtf8 |-> HasTwoSegments(t) /\ NotUtf8(Split(t)[1], ForgivingBase64),
     padded |-> IF HasTwoSegments(t)
                THEN { [segment |-> Split(t)[i], padded |-> PaddedSegment(Split(t)[i])] : i \in 1..2 }
                ELSE {}] :
      t \in Tokens \cup {<< >>} }

\* The value of the key-set text's keys field (undefined when the text is
\* no JSON or the parsed value has no fields).
KeysField(text) ==
  IF JsonParse(text).ok /\ GetProp(JsonParse(text).v, Name.keys).ok
  THEN GetProp(JsonParse(text).v, Name.keys).v
  ELSE Undefined

KeySetFacts == { [text |-> j, field |-> KeysField(j)] : j \in JwksTexts }

\* The token and the key set of the latest verify call, and the token of the
\* latest decode call.
VerifiedToken == CHOOSE f \in TokenFacts : f.token = lastVerify.token

VerifiedKeySet == (CHOOSE f \in KeySetFacts : f.text = lastVerify.jwks).field

DecodedToken == CHOOSE f \in TokenFacts : f.token = lastDecode.token

Alg(f) == Member(f.header, Name.alg)

Kid(f) == Member(f.header, Name.kid)

AlgAllowListed(f) == Alg(f).t = "str" /\ Alg(f).s \in AllowList

AlgOutsideAllowList(f) ==
  Alg(f).t = "str" /\ Alg(f).s # << >> /\ Alg(f).s \notin AllowList

HasKeysArray(field) == field.t = "arr"

\* A well-formed key set: a keys array of objects.
WellFormedKeySet(field) ==
  /\ HasKeysArray(field)
  /\ \A i \in 1..Len(field.kids) : field.kids[i].val.t = "obj"

\* The keys of the set whose public material is the signing key's.
SigningKeys(field, f) ==
  { i \in 1..Len(field.kids) :
      /\ Material(field.kids[i].val).t = "str"
      /\ Material(field.kids[i].val).s \in f.signers }

\* The keys key selection admits, in the specification's words: compatible
\* with the algorithm and, when the header carries a kid, of exactly that kid.
Selectable(field, f) ==
  { i \in 1..Len(field.kids) :
      /\ Compatible(field.kids[i].val, Alg(f).s)
      /\ Kid(f).t # "undef" => Member(field.kids[i].val, Name.kid) = Kid(f) }

\* The keys that carry the header's kid.
KidMatches(field, f) ==
  { i \in 1..Len(field.kids) : Member(field.kids[i].val, Name.kid) = Kid(f) }

\* The registered time claims of the token admit it at the time.
ClaimsTimely(f, time) ==
  /\ f.claims.t = "obj"
  /\ Member(f.claims, Name.iat).t \in {"undef", "num"}
  /\ \/ Member(f.claims, Name.nbf).t = "undef"
     \/ Member(f.claims, Name.nbf).t = "num"
          /\ Member(f.claims, Name.nbf).n <= time \div MsPerSecond
  /\ \/ Member(f.claims, Name.exp).t = "undef"
     \/ Member(f.claims, Name.exp).t = "num"
          /\ Member(f.claims, Name.exp).n > time \div MsPerSecond

\* A verify call has settled on a compact token: exactly three segments.
Verified3 == lastVerify.called /\ VerifiedToken.segments = 3

(***************************************************************************)
(* The claims about verify.                                                *)
(***************************************************************************)
\* C1, as stated: for a token whose header declares an alg outside the
\* allow-list, verify returns UnsupportedAlgorithm whatever the key-set text
\* contains.
C1_AnyKeySetText ==
  Verified3 /\ AlgOutsideAllowList(VerifiedToken)
    => IsUnsupportedAlgorithm(lastVerify.status)

\* C1, amended: for a token whose header declares an alg outside the
\* allow-list, verify never returns Verified, whatever the key-set text
\* contains, and returns UnsupportedAlgorithm whenever the key-set text is a
\* well-formed key set, also when the set holds a key with the header's kid.
C1_UnsupportedAlgorithm ==
  Verified3 /\ AlgOutsideAllowList(VerifiedToken)
    => /\ ~IsVerified(lastVerify.status)
       /\ WellFormedKeySet(VerifiedKeySet) => IsUnsupportedAlgorithm(lastVerify.status)

\* An HS256 token is refused with a key of its kid in the set.
C1_Witness ==
  /\ Verified3
  /\ Alg(VerifiedToken) = Str(HS256)
  /\ WellFormedKeySet(VerifiedKeySet)
  /\ KidMatches(VerifiedKeySet, VerifiedToken) # {}
  /\ IsUnsupportedAlgorithm(lastVerify.status)

\* C2, as stated: for a token signed with an allow-listed algorithm and a
\* key set that contains the public key that signed it, verify returns
\* Verified with the header's algorithm and key id.
C2_SigningKeyInSet ==
  /\ Verified3
  /\ AlgAllowListed(VerifiedToken)
  /\ WellFormedKeySet(VerifiedKeySet)
  /\ SigningKeys(VerifiedKeySet, VerifiedToken) # {}
  => lastVerify.status = VerifiedStatus(Alg(VerifiedToken), Kid(VerifiedToken))

\* C2, amended: for a token signed with an allow-listed algorithm whose time
\* claims admit it at the time of the call, and a key set in which the
\* public key that signed it is the one key selected for the header's alg
\* and kid, verify returns Verified with the header's algorithm and key id.
C2_Verified ==
  /\ Verified3
  /\ AlgAllowListed(VerifiedToken)
  /\ WellFormedKeySet(VerifiedKeySet)
  /\ Cardinality(Selectable(VerifiedKeySet, VerifiedToken)) = 1
  /\ Selectable(VerifiedKeySet, VerifiedToken)
       \subseteq SigningKeys(VerifiedKeySet, VerifiedToken)
  /\ ClaimsTimely(VerifiedToken, lastVerify.now)
  => /\ IsVerified(lastVerify.status)
     /\ lastVerify.status.message.algorithm = Alg(VerifiedToken).s
     /\ Kid(VerifiedToken).t = "str" /\ Kid(VerifiedToken).s # << >>
          => lastVerify.status.message.keyId = Kid(VerifiedToken).s

\* An ES256 token is verified against a set of two keys, one of them its own.
C2_Witness ==
  /\ Verified3
  /\ Alg(VerifiedToken) = Str(ES256)
  /\ WellFormedKeySet(VerifiedKeySet)
  /\ Len(VerifiedKeySet.kids) = 2
  /\ Cardinality(SigningKeys(VerifiedKeySet, VerifiedToken)) = 1
  /\ IsVerified(lastVerify.status)
  /\ lastVerify.status.message.keyId = Kid(VerifiedToken).s

\* C3: verify returns InvalidKeySet whenever the key-set text is no JSON or
\* the parsed value has no array-valued keys field, and it does so before
\* the token's header is read, the algorithm checked, a key selected or a
\* signature verified.
C3_InvalidKeySet ==
  lastVerify.called /\ ~HasKeysArray(VerifiedKeySet)
    => /\ IsInvalidKeySet(lastVerify.status)
       /\ \A i \in 1..Len(lastVerify.steps) :
            lastVerify.steps[i] \in {Step.parse, Step.validate}

\* The key-set text {} is refused.
C3_Witness ==
  /\ lastVerify.called
  /\ lastVerify.jwks = << Ch.lbrace, Ch.rbrace >>
  /\ IsInvalidKeySet(lastVerify.status)
  /\ lastVerify.steps = << Step.parse, Step.validate >>

\* C4, as stated: for a well-formed key set that holds only keys unrelated
\* to the token, verify never returns Verified; it returns NoMatchingKey
\* when no key has the header's kid and Failed when a key has it.
C4_UnrelatedKeys ==
  /\ Verified3
  /\ WellFormedKeySet(VerifiedKeySet)
  /\ VerifiedKeySet.kids # << >>
  /\ SigningKeys(VerifiedKeySet, VerifiedToken) = {}
  => /\ ~IsVerified(lastVerify.status)
     /\ Kid(VerifiedToken).t = "str"
          => IF KidMatches(VerifiedKeySet, VerifiedToken) = {}
             THEN IsNoMatchingKey(lastVerify.status)
             ELSE IsFailed(lastVerify.status)

\* C4, amended: for a well-formed key set that holds only keys unrelated to
\* the token, verify never returns Verified; when the header's alg is
\* allow-listed, it returns NoMatchingKey when no key compatible with the alg
\* has the header's kid and Failed when one has.
C4_NeverVerified ==
  /\ Verified3
  /\ WellFormedKeySet(VerifiedKeySet)
  /\ VerifiedKeySet.kids # << >>
  /\ SigningKeys(VerifiedKeySet, VerifiedToken) = {}
  => /\ ~IsVerified(lastVerify.status)
     /\ AlgAllowListed(VerifiedToken) /\ Kid(VerifiedToken).t = "str"
          => IF Selectable(VerifiedKeySet, VerifiedToken) = {}
             THEN IsNoMatchingKey(lastVerify.status)
             ELSE IsFailed(lastVerify.status)

\* A token is refused by a key of its kid that did not sign it.
C4_Witness ==
  /\ Verified3
  /\ AlgAllowListed(VerifiedToken)
  /\ WellFormedKeySet(VerifiedKeySet)
  /\ SigningKeys(VerifiedKeySet, VerifiedToken) = {}
  /\ KidMatches(VerifiedKeySet, VerifiedToken) # {}
  /\ Reason(lastVerify.status) = JoseError.signatureMismatch

\* C5, as stated: with a kid in the header only the keys of exactly that kid
\* are candidates, without one every key compatible with the algorithm is;
\* verify fails with NoMatchingKey exactly when there is no candidate.
C5_KeySelection ==
  /\ Verified3
  /\ Alg(VerifiedToken).t = "str"
  /\ WellFormedKeySet(VerifiedKeySet)
  => (IsNoMatchingKey(lastVerify.status)
        <=> Selectable(VerifiedKeySet, VerifiedToken) = {})

\* C5, amended: for a header whose alg is allow-listed, with a kid in the
\* header only the keys of exactly that kid are candidates, without one every
\* key compatible with the algorithm is; verify fails with NoMatchingKey
\* exactly when there is no candidate.
C5_NoMatchingKey ==
  /\ Verified3
  /\ AlgAllowListed(VerifiedToken)
  /\ WellFormedKeySet(VerifiedKeySet)
  => (IsNoMatchingKey(lastVerify.status)
        <=> Selectable(VerifiedKeySet, VerifiedToken) = {})

\* A compatible key of another kid is no candidate.
C5_Witness ==
  /\ Verified3
  /\ AlgAllowListed(VerifiedToken)
  /\ WellFormedKeySet(VerifiedKeySet)
  /\ Kid(VerifiedToken).t = "str"
  /\ \E i \in 1..Len(VerifiedKeySet.kids) :
       Compatible(VerifiedKeySet.kids[i].val, Alg(VerifiedToken).s)
  /\ Selectable(VerifiedKeySet, VerifiedToken) = {}
  /\ IsNoMatchingKey(lastVerify.status)

\* C6, as stated: a Verified outcome carries the header's algorithm and key
\* identifier, and carries "none" as key identifier exactly when the header
\* carried no kid.
C6_NoneIffNoKid ==
  lastVerify.called /\ IsVerified(lastVerify.status)
    => /\ lastVerify.status.message.algorithm = Alg(VerifiedToken).s
       /\ lastVerify.status.message.keyId = NONE <=> Kid(VerifiedToken).t = "undef"
       /\ Kid(VerifiedToken).t = "str"
            => lastVerify.status.message.keyId = Kid(VerifiedToken).s

\* C6, amended: a Verified outcome carries the header's algorithm; it carries
\* the header's kid as key identifier when the kid is a non-empty string, and
\* "none" when the header carried no kid or an empty one.
C6_VerifiedCarries ==
  lastVerify.called /\ IsVerified(lastVerify.status)
    => /\ lastVerify.status.message.algorithm = Alg(VerifiedToken).s
       /\ lastVerify.status.message.keyId
            = IF Kid(VerifiedToken).t = "str" /\ Kid(VerifiedToken).s # << >>
              THEN Kid(VerifiedToken).s
              ELSE NONE

\* A token whose header carries the kid "" is verified, with "none" for its
\* key identifier.
C6_Witness ==
  /\ lastVerify.called
  /\ IsVerified(lastVerify.status)
  /\ Kid(VerifiedToken) = Str(<< >>)
  /\ lastVerify.status.message.keyId = NONE

(***************************************************************************)
(* The claims about decode.  The outcome of the latest decodeToken call is *)
(* the state it left: decodedHeader, decodedPayload and error.             *)
(***************************************************************************)
IsMalformedToken(message) == message \in {EnterToken, InvalidFormat}

IsInvalidEncoding(message) == message = InvalidBase64

IsInvalidJSON(message) == message = JsonSyntaxError

\* C7: for a token with no '.' or with fewer than two non-empty segments,
\* the empty and the whitespace-only one among them, decode returns
\* MalformedToken and stores no header and no payload.
C7_MalformedToken ==
  lastDecode.called /\ DecodedToken.nonEmpty < 2
    => /\ IsMalformedToken(error)
       /\ decodedHeader = Null
       /\ decodedPayload = Null

\* A token with a '.' and one non-empty segment is refused.
C7_Witness ==
  /\ lastDecode.called
  /\ DecodedToken.segments = 2
  /\ DecodedToken.nonEmpty = 1
  /\ error = InvalidFormat
  /\ decodedHeader = Null

\* C8: every token decode accepts has exactly three segments; a text of two
\* segments or of four and more is not decoded.
C8_ThreeSegments ==
  lastDecode.called /\ decodedHeader # Null => DecodedToken.segments = 3

\* C9: the token base64url(JSON(H)).base64url(JSON(P)).signature decodes to
\* the header H and the payload P, whatever the signature segment.
C9_RoundTrip ==
  \A r \in RoundTrips :
    lastDecode.called /\ lastDecode.token = r.token
      => decodedHeader = r.header /\ decodedPayload = r.payload

\* A token with a payload outside ASCII and an empty signature is decoded.
C9_Witness ==
  /\ lastDecode.called
  /\ \E r \in RoundTrips :
       /\ r.token = lastDecode.token
       /\ r.payload = PayloadAccent
       /\ DecodedToken.segments = 3
       /\ Split(r.token)[3] = << >>
       /\ decodedHeader = r.header
       /\ decodedPayload = r.payload

\* C10, as stated: for a token whose header or payload segment decodes to a
\* text that is no JSON, decode returns InvalidJSON.
C10_EitherSegment ==
  /\ lastDecode.called
  /\ DecodedToken.twoSegments
  /\ DecodedToken.headerNonJson \/ DecodedToken.payloadNonJson
  => IsInvalidJSON(error)

\* C10, amended: for a token whose header segment decodes to a text that is
\* no JSON, or whose header segment decodes to JSON and whose payload segment
\* decodes to a text that is no JSON, decode returns InvalidJSON, which is
\* neither InvalidEncoding nor MalformedToken, and stores nothing.
C10_InvalidJSON ==
  /\ lastDecode.called
  /\ DecodedToken.twoSegments
  /\ \/ DecodedToken.headerNonJson
     \/ DecodedToken.headerJson /\ DecodedToken.payloadNonJson
  => /\ IsInvalidJSON(error)
     /\ ~IsInvalidEncoding(error)
     /\ ~IsMalformedToken(error)
     /\ decodedHeader = Null
     /\ decodedPayload = Null

\* A token with a JSON header and a payload that is no JSON is refused.
C10_Witness ==
  /\ lastDecode.called
  /\ DecodedToken.headerJson
  /\ DecodedToken.payloadNonJson
  /\ IsInvalidJSON(error)

\* C11, as stated: for a token whose header or payload segment, mapped and
\* padded, is not valid base64 or does not decode to valid UTF-8, decode
\* returns InvalidEncoding; the padded segment's length is a multiple of 4
\* and at most 3 '=' are appended.
C11_EitherSegment ==
  /\ lastDecode.called
  /\ DecodedToken.twoSegments
  => /\ DecodedToken.headerBad \/ DecodedToken.payloadBad => IsInvalidEncoding(error)
     /\ \A s \in DecodedToken.padded :
          Len(s.padded) % 4 = 0 /\ Len(s.padded) - Len(s.segment) <= 3

\* C11, amended: for a token whose header segment, mapped and padded, is no
\* base64 once ASCII whitespace is ignored or decodes to bytes that are no
\* UTF-8, or whose header segment decodes to JSON and whose payload segment
\* is such, decode returns InvalidEncoding and stores nothing; the padded
\* segment's length is a multiple of 4 and at most 3 '=' are appended.
C11_InvalidEncoding ==
  /\ lastDecode.called
  /\ DecodedToken.twoSegments
  => /\ \/ DecodedToken.headerUnreadable
        \/ DecodedToken.headerJson /\ DecodedToken.payloadUnreadable
        => /\ IsInvalidEncoding(error)
           /\ decodedHeader = Null
           /\ decodedPayload = Null
     /\ \A s \in DecodedToken.padded :
          /\ Len(s.padded) % 4 = 0
          /\ Len(s.padded) - Len(s.segment) <= 3
          /\ \A i \in Len(s.segment) + 1..Len(s.padded) : s.padded[i] = Ch.equals

\* A header segment of base64 whose bytes are no UTF-8 is refused, and it
\* was padded with two '='.
C11_Witness ==
  /\ lastDecode.called
  /\ DecodedToken.headerNotUtf8
  /\ \E s \in DecodedToken.padded : Len(s.padded) = Len(s.segment) + 2
  /\ IsInvalidEncoding(error)

\* A mapping from string keys to JSON values.
IsMapping(value) == value.t = "obj"

\* C12: every header and every payload decode stores is a mapping from
\* string keys to JSON values; a segment whose text is JSON and no object is
\* never stored as decodedHeader or decodedPayload.
C12_StoredMappings ==
  lastDecode.called
    => /\ decodedHeader # Null => IsMapping(decodedHeader)
       /\ decodedPayload # Null => IsMapping(decodedPayload)

(***************************************************************************)
(* The claims about the expiry check.  Its outcome is the error state the  *)
(* latest decodeToken call left: the warning for Expired, none otherwise.  *)
(***************************************************************************)
\* The exp claim of the stored payload (undefined when nothing is stored or
\* the payload has no exp).
StoredExp == Member(decodedPayload, Name.exp)

ReportsExpired == error = ExpiredWarning

\* C13: for a decoded payload with a numeric exp and a time now, the expiry
\* check reports Expired if and only if exp * 1000 < now, for every numeric
\* exp.
C13_ExpiredIff ==
  lastDecode.called /\ StoredExp.t = "num"
    => (ReportsExpired <=> StoredExp.n * 1000 < lastDecode.now)

\* C14: the expiry check treats a token as having no expiry if and only if
\* the exp claim is absent from the payload; a payload without exp produces
\* no expiry warning and no error.
C14_NoExpiryIffAbsent ==
  lastDecode.called /\ IsMapping(decodedPayload)
    => /\ ExpiryStatus(StoredExp, lastDecode.now) = "NoExpiry" <=> StoredExp.t = "undef"
       /\ StoredExp.t = "undef" => error = NoError

\* C15: the expiry check is monotonic in the time: a token reported Expired
\* is reported Expired by every later decode of it, and never goes back to
\* Valid.
C15_Monotonic ==
  [][ReportsExpired /\ lastDecode'.called /\ lastDecode'.token = lastDecode.token
       => ReportsExpired']_vars

\* A token found expired is decoded again at a later time and found expired.
C15_Witness ==
  /\ lastDecode.called
  /\ lastDecode.recheck
  /\ StoredExp.t = "num"
  /\ ReportsExpired

(***************************************************************************)
(* The claims about what decodeToken leaves when it is done.               *)
(***************************************************************************)
\* The latest decodeToken call was given a token it cannot decode: a
\* malformed one, or one with a segment that is no base64url of the JSON
\* text of a mapping.
Undecodable ==
  /\ lastDecode.called
  /\ ~(DecodedToken.twoSegments /\ DecodedToken.headerMapping /\ DecodedToken.payloadMapping)

\* C16: when a decodeToken call ends in a decode failure, decodedHeader,
\* decodedPayload and signatureStatus are null, parseAndVerifyJwks was not
\* called, and one error message is set.
C16_DecodeFailure ==
  Undecodable
    => /\ decodedHeader = Null
       /\ decodedPayload = Null
       /\ signatureStatus = Null
       /\ pending = << >>
       /\ ~isVerifying
       /\ error # NoError

\* A verification outcome is on the page, and it is a failure.
ShowsFailure == signatureStatus # Null /\ ~signatureStatus.verified

\* C17: after a successful decode followed by a verification that does not
\* succeed, decodedHeader and decodedPayload hold the decoded values and
\* signatureStatus holds the failure the verification ended with.
C17_FailureKeepsDecoded ==
  ShowsFailure
    => /\ lastDecode.called
       /\ decodedHeader = DecodedToken.parsedHeader
       /\ decodedPayload = DecodedToken.parsedPayload
       /\ lastVerify.called
       /\ signatureStatus = lastVerify.status
       /\ signatureStatus.message.text = "Signature verification failed"

\* A token is decoded and then refused for want of a key: header, payload
\* and failure are on the page together.
C17_Witness ==
  /\ ShowsFailure
  /\ IsNoMatchingKey(signatureStatus)
  /\ decodedHeader = HeaderRsKidA
  /\ decodedPayload = PayloadSub

\* The exp claim of the token the latest decodeToken call was given.
DecodedExp == Member(DecodedToken.parsedPayload, Name.exp)

\* The latest decodeToken call was given a decodable token whose exp was in
\* the past at the time of the call.
DecodedPastExpiry ==
  /\ lastDecode.called
  /\ DecodedToken.headerMapping
  /\ DecodedToken.payloadMapping
  /\ DecodedExp.t = "num"
  /\ DecodedExp.n * 1000 < lastDecode.now

\* C18: for a decodable token whose exp is in the past, decodedHeader and
\* decodedPayload are set and the expiry warning is the message displayed
\* from the end of the decode on, with or without a key-set text and
\* whatever the verification ends with.
C18_WarningStays ==
  DecodedPastExpiry
    => /\ decodedHeader = DecodedToken.parsedHeader
       /\ decodedPayload = DecodedToken.parsedPayload
       /\ error = ExpiredWarning

(***************************************************************************)
(* The claims about the payload panel.                                     *)
(***************************************************************************)
\* C19: formatting the payload for display leaves the stored payload as it
\* was decoded: while the payload panel is shown, after any number of
\* renderings, decodedPayload holds the raw exp, iat and nbf and every other
\* claim of the decoded payload.
C19_DisplayKeepsPayload ==
  lastDecode.called /\ payloadDisplay # << >>
    => /\ decodedPayload = DecodedToken.parsedPayload
       /\ \A claim \in {Name.exp, Name.iat, Name.nbf} :
            Member(decodedPayload, claim) = Member(DecodedToken.parsedPayload, claim)

\* A payload with iat, nbf and exp has been rendered after the decode and
\* again after the verification: the panel shows the annotated claims and
\* the state holds the numbers.
C19_Witness ==
  /\ lastDecode.called
  /\ signatureStatus # Null
  /\ payloadDisplay # << >>
  /\ payloadDisplay # formatJSON(decodedPayload)
  /\ decodedPayload = PayloadTimes(Num(1), Num(0), Num(2))

(***************************************************************************)
(* The claims about how failures are delivered.                            *)
(***************************************************************************)
\* The latest decodeToken call was given a token on which a statement of
\* its try block throws: the format check, base64URLDecode, JSON.parse or
\* the read of payload.exp.
DecodeThrows ==
  /\ lastDecode.called
  /\ \/ ~DecodedToken.twoSegments
     \/ ~DecodedToken.headerJson
     \/ DecodedToken.parsedPayload \in {Undefined, Null}

\* C20: every failure of decoding or verification is delivered as a value:
\* parseAndVerifyJwks resolves with a status, verified or not, for every
\* token and key-set text and never rejects, and a decodeToken call on which
\* something throws ends with an error message.
C20_FailuresAreValues ==
  /\ lastVerify.called
       => /\ lastVerify.settled = "fulfilled"
          /\ lastVerify.status.verified \in BOOLEAN
          /\ ~lastVerify.status.verified
               => lastVerify.status.message.text = "Signature verification failed"
          /\ error # InvalidJwksFormat
  /\ DecodeThrows
       => error \in {EnterToken, InvalidFormat, InvalidBase64, JsonSyntaxError, PropertyOfNull}

\* The key-set text null, on which the read of jwksData.keys throws a
\* TypeError, ends in a failure status.
C20_Witness ==
  /\ lastVerify.called
  /\ lastVerify.jwks = S(<< "n", "u", "l", "l" >>)
  /\ lastVerify.settled = "fulfilled"
  /\ signatureStatus = FailedStatus(PropertyOfNull)

(***************************************************************************)
(* The claims about the page of the decoder: what it shows together, and   *)
(* when it verifies.                                                       *)
(***************************************************************************)
\* C26, as stated: in every reachable state signatureStatus is non-null only
\* if decodedHeader and decodedPayload are both non-null, so that no
\* verification banner is shown without a header and a payload.
C26_BannerNeedsDecoded ==
  signatureStatus # Null => decodedHeader # Null /\ decodedPayload # Null

\* A step of decodeToken up to its await or its end.
DecodeStep == lastDecode' # lastDecode \/ Len(pending') > Len(pending)

C24_OneInFlight ==
  /\ Len(pending) <= 1
  /\ isVerifying <=> Len(pending) = 1

\* A second verification is in flight, started after the first one settled.
C24_Witness ==
  /\ isVerifying
  /\ Len(pending) = 1
  /\ lastVerify.called
  /\ lastDecode.called
  /\ signatureStatus = Null

\* C25: every decodeToken call that sets isVerifying sets it back to false
\* once the call it awaits has settled, whatever the outcome, and
\* isVerifying is false whenever no call is awaited: the Decode button is
\* never left disabled.
C25_VerifyingEnds ==
  /\ isVerifying ~> ~isVerifying
  /\ [](pending = << >> => ~isVerifying)

\* A verification has failed and the button is enabled again.
C25_Witness ==
  /\ lastVerify.called
  /\ ~lastVerify.status.verified
  /\ signatureStatus = lastVerify.status
  /\ ~isVerifying
  /\ pending = << >>

\* C21: when decodeToken is called again before the verification of an
\* earlier call has settled, each call settles on its own token and key-set
\* text and leaves the other awaited, and the status on the page after a
\* call settles is the status of that call: the call that settles last
\* determines signatureStatus.
C21_LastSettledWins ==
  [][Len(pending') < Len(pending)
       => /\ lastVerify'.called
          /\ signatureStatus' = lastVerify'.status
          /\ \E i \in 1..Len(pending) :
               /\ pending[i] = [jwks |-> lastVerify'.jwks, token |-> lastVerify'.token]
               /\ pending' = SubSeq(pending, 1, i - 1) \o SubSeq(pending, i + 1, Len(pending))]_vars

\* Two calls were awaited at once, on different key-set texts; the newer
\* one was verified first and the older one settled last, with a failure:
\* the page shows the failure of the older call.
C21_Witness ==
  /\ pending = << >>
  /\ lastDecode.called
  /\ lastVerify.called
  /\ ~DecodeThrows
  /\ ~IsBlank(lastDecode.jwks)
  /\ lastVerify.jwks # lastDecode.jwks
  /\ lastVerify.token = lastDecode.token
  /\ ~lastVerify.status.verified
  /\ signatureStatus = lastVerify.status

(***************************************************************************)
(* The claims about the theme.                                             *)
(***************************************************************************)
\* C23: while the source of the theme is 'system', every change of the
\* colour scheme of the system sets isDark to the new value of the system
\* and leaves the source; once the user has chosen Light or Dark (source
\* 'user') a change of the colour scheme changes nothing of the theme,
\* until System is selected again, which sets isDark to the colour scheme
\* of the system and the source to 'system'.
C23_SystemAware ==
  [][/\ systemDark' # systemDark /\ themeState.source = "system"
          => themeState' = [isDark |-> systemDark', source |-> "system"]
     /\ systemDark' # systemDark /\ themeState.source = "user"
          => themeState' = themeState
     /\ themeEvent' # themeEvent /\ themeEvent'.kind = "system"
          => themeState' = [isDark |-> systemDark, source |-> "system"]
     /\ themeEvent' # themeEvent /\ themeEvent'.kind = "user"
          => themeState'.source = "user"]_vars

\* The user chose Light, and the system has turned dark since: the theme
\* is still light.
C23_Witness ==
  /\ themeEvent.kind = "change"
  /\ themeEvent.before = [isDark |-> FALSE, source |-> "user"]
  /\ themeState = themeEvent.before
  /\ systemDark
  /\ ~rootDark

\* C27: after any sequence of theme selections and changes of the colour
\* scheme of the system, once the effects have run, the root element has
\* the class 'dark' if and only if themeState.isDark, and the item
\* 'darkMode' of localStorage holds the JSON text of themeState.isDark.
C27_ThemeApplied ==
  themeEvent.kind # "construct"
    => /\ rootDark <=> themeState.isDark
       /\ storedDarkMode = IF themeState.isDark THEN Str(S(<< "t", "r", "u", "e" >>))
                           ELSE Str(S(<< "f", "a", "l", "s", "e" >>))

\* The system turned dark while the theme followed it: the class is set
\* and the item holds true.
C27_Witness ==
  /\ themeEvent.kind = "change"
  /\ themeEvent.before = [isDark |-> FALSE, source |-> "system"]
  /\ themeState = [isDark |-> TRUE, source |-> "system"]
  /\ rootDark
  /\ storedDarkMode = Str(S(<< "t", "r", "u", "e" >>))

(***************************************************************************)
(* The claims about the Mermaid viewer.                                    *)
(***************************************************************************)
\* C28: rendering is debounced: at most one timer is pending at any time;
\* every change of the code leaves the timer of the new code as the only
\* one; and mermaid.render is called only for the code on the page, after
\* it has stayed unchanged for 500 ms, so that a code replaced within that
\* time is not rendered.
C28_Debounced ==
  /\ [](Len(timers) <= 1)
  /\ [][/\ code' # code => timers' = << [code |-> code', waited |-> 0] >>
        /\ Len(renders') > Len(renders)
             => /\ sinceChange >= 500
                /\ renders' = Append(renders, [code |-> code])]_vars

\* The initial code was replaced by another diagram before its timer
\* fired: the only render started is of the new code, and nothing has been
\* shown of the initial code.
C28_Witness ==
  /\ replaced = [any |-> TRUE, code |-> InitialCode]
  /\ code = Text1("A")
  /\ renders = << [code |-> Text1("A")] >>
  /\ timers = << >>
  /\ svg = << >>

\* C29, as stated: once the timer has fired and all started renders have
\* settled, svg and error are those of the latest code: the svg of the code
\* and no error for a diagram, the error for a text that is no diagram,
\* and both empty for an empty or whitespace-only code.
C29_LatestCodeShown ==
  timers = << >> /\ renders = << >>
    => /\ IsBlank(code) => svg = << >> /\ diagramError = NoError
       /\ code \in Diagrams => svg = mermaidRender(code).v /\ diagramError = NoError
       /\ ~IsBlank(code) /\ code \notin Diagrams => diagramError = InvalidDiagram

====
